---- MODULE Spec2Model ----
(***************************************************************************)
(* Model of the performance tester's POST /test handler (api/index.js):    *)
(* the request handler, the run pipeline it races against the global       *)
(* deadline timer, runSingleTest, the in-page observers and the request    *)
(* interceptor installed by setupRequestInterceptor.                       *)
(*                                                                         *)
(* An action is one synchronous segment of the JavaScript code: it starts  *)
(* where an awaited operation settles (or a timer or event fires) and runs *)
(* to the next await.  Promise continuations are microtasks, so the code   *)
(* that follows the settling of a promise runs in the same action.         *)
(***************************************************************************)
EXTENDS Integers, Sequences, FiniteSets, TLC

(***************************************************************************)
(* Bounds                                                                  *)
(***************************************************************************)
MaxRuns == 2
MaxSubrequests == 1
MaxLcpUpdates == 1
MaxSamples == 3
MaxLcpEntries == 3
MaxElements == 2
MaxStreamRequests == 2
MaxDocuments == 2
MaxClicks == 2

(***************************************************************************)
(* Values                                                                  *)
(***************************************************************************)
\* JavaScript null as a metric value (resolve(null), finalLcp = null).
Null == -2
\* The sentinel of the dry-run response.
DryRunMetric == -1

\* Strings are sequences of one-character strings; the empty sequence also
\* stands for a url that is missing from the request body (both are falsy).
NoUrl == <<>>
TestUrl == <<"p", "g">>
\* Subresources and sub-frames the document may request: url and resource type.
SubRequests == {<<<<"a", "d">>, "script">>, <<<<"A", "d">>, "script">>, <<<<"a", "d">>, "document">>}
FcpValues == {120}
LcpValues == {400}
\* Metric values of the aggregation and of the LCP log: even numbers, so that
\* the mean of two of them is an integer.
SampleFcpValues == {Null, 20, 40, 100}
SampleLcpValues == {Null, 60, 80}
LcpEntryValues == {80, 200, 400, 600}
FetchOutcomes == {"okHtml", "notOk", "notHtml", "fetchFail", "bodyFail"}

\* rules: defined = FALSE is a request body without a rules field;
\* hasBlock = FALSE is a rules object without a block field;
\* find = <<>> is a rules object without html_replace (or with an empty find).
RulesOmitted == [defined |-> FALSE, hasBlock |-> FALSE, block |-> <<>>, find |-> <<>>]
RulesBlockAd == [defined |-> TRUE, hasBlock |-> TRUE, block |-> << <<"x">>, <<"a", "d">> >>, find |-> <<"h">>]
RulesBlockDoc == [defined |-> TRUE, hasBlock |-> TRUE, block |-> << <<"g">> >>, find |-> <<>>]
RulesBadRegex == [defined |-> TRUE, hasBlock |-> FALSE, block |-> <<>>, find |-> <<"(">>]
RuleSets == {RulesOmitted, RulesBlockAd, RulesBlockDoc, RulesBadRegex}

VARIABLES
    req,          \* the request body after destructuring (defaults applied)
    hpc,          \* position of the route handler
    ppc,          \* position of the run pipeline (the async function raced against the deadline)
    i,            \* loop counter of the run loop
    browserVar,   \* TRUE once the handler's variable `browser` is assigned
    browserState, \* the browser process: none, open, closing, closed
    race,         \* the outer Promise.race: none, pending, fulfilled, rejected
    gtimer,       \* the global deadline timer: unset, armed, fired
    pages,        \* every page created on the browser, in creation order
    reqs,         \* intercepted requests of the navigation in progress, and those whose handler is still running
    fcp,          \* fcpMetricPromise of the current run
    fcpTimer,     \* the 30 s FCP timer of the current run
    inpage,       \* window.__fcpReported and window.__lcpUpdates of the current document
    allMetrics,   \* samples collected by the run loop
    rout,         \* completion of runSingleTest's try block, pending while finally runs
    perr,         \* the error the pipeline was rejected with
    responses,    \* responses sent on res
    atResponse    \* history: the cause of each response, and the browser state and open pages when it was sent

vars == <<req, hpc, ppc, i, browserVar, browserState, race, gtimer, pages, reqs,
          fcp, fcpTimer, inpage, allMetrics, rout, perr, responses, atResponse>>

(***************************************************************************)
(* Pure helpers                                                            *)
(***************************************************************************)
\* String.prototype.includes: case-sensitive substring containment.
Includes(s, f) ==
    \E k \in 0..(Len(s) - Len(f)) : SubSeq(s, k + 1, k + Len(f)) = f

\* Array.prototype.some over the block list.
SomeFragmentIn(block, u) ==
    \E k \in 1..Len(block) : Includes(u, block[k])

\* new RegExp(pattern): throws a SyntaxError for an unbalanced group.
RECURSIVE Depth(_, _)
Depth(p, d) ==
    IF p = <<>> THEN d
    ELSE IF d < 0 THEN d
    ELSE Depth(Tail(p), d + (IF Head(p) = "(" THEN 1 ELSE IF Head(p) = ")" THEN -1 ELSE 0))
RegExpCompiles(p) == Depth(p, 0) = 0

NoRun == [kind |-> "none", err |-> "none", FCP |-> Null, LCP |-> Null]
NoInpage == [fcpReported |-> FALSE, lcpUpdates |-> <<>>]
NoFcp == [state |-> "unarmed", value |-> Null]

NumOpen(ps) == Cardinality({k \in 1..Len(ps) : ps[k].state = "open"})

(***************************************************************************)
(* The request interceptor (setupRequestInterceptor)                       *)
(***************************************************************************)
\* One resolution of an intercepted request: the call (abort, respond or
\* continue), its argument and the place of the call in the handler.
Resolution(act, arg, site) == [act |-> act, arg |-> arg, site |-> site]

\* An intercepted request as the 'request' event delivers it.
NewRequest(pg, u, t, nav, main) ==
    [page |-> pg, url |-> u, type |-> t, nav |-> nav, main |-> main,
     pc |-> "delivered", res |-> <<>>, fetches |-> 0, fetched |-> "none"]

\* Variant: no outer catch; the exception rejects the handler's promise and
\* the request is left unresolved.
OuterCatch_Rethrows(r) == [r EXCEPT !.pc = "rejected"]

\* The handler up to its first await: the block rule, then the rewrite path
\* for a navigation document (the out-of-band fetch is started), then
\* continue.  Reading rules.block of an omitted rules object throws a
\* TypeError, which the outer catch answers with request.abort() unless the
\* request is already resolved (isInterceptResolutionHandled).
OuterCatch(r) ==
    IF r.res = <<>>
    THEN [r EXCEPT !.pc = "done", !.res = Append(@, Resolution("abort", "failed", "outerCatch"))]
    ELSE [r EXCEPT !.pc = "done"]

\* Variant: the block rule aborts without returning, so the handler goes on
\* to the rewrite path or to continue.
HandleRequest_FallThrough(rules, r) ==
    IF ~rules.defined
    THEN OuterCatch(r)
    ELSE LET a == IF rules.hasBlock /\ SomeFragmentIn(rules.block, r.url)
                  THEN [r EXCEPT !.res = Append(@, Resolution("abort", "failed", "block"))]
                  ELSE r
         IN  IF a.type = "document" /\ a.nav
             THEN [a EXCEPT !.pc = "fetching", !.fetches = @ + 1]
             ELSE [a EXCEPT !.pc = "done", !.res = Append(@, Resolution("continue", "", "default"))]

\* Variant: the rewrite path of a navigation document is taken before the
\* block rule is looked at.
HandleRequest_RewriteFirst(rules, r) ==
    IF ~rules.defined
    THEN OuterCatch(r)
    ELSE IF r.type = "document" /\ r.nav
    THEN [r EXCEPT !.pc = "fetching", !.fetches = @ + 1]
    ELSE IF rules.hasBlock /\ SomeFragmentIn(rules.block, r.url)
    THEN [r EXCEPT !.pc = "done", !.res = Append(@, Resolution("abort", "failed", "block"))]
    ELSE [r EXCEPT !.pc = "done", !.res = Append(@, Resolution("continue", "", "default"))]

HandleRequest(rules, r) ==
    IF ~rules.defined
    THEN OuterCatch(r)
    ELSE IF rules.hasBlock /\ SomeFragmentIn(rules.block, r.url)
    THEN [r EXCEPT !.pc = "done", !.res = Append(@, Resolution("abort", "failed", "block"))]
    ELSE IF r.type = "document" /\ r.nav
    THEN [r EXCEPT !.pc = "fetching", !.fetches = @ + 1]
    ELSE [r EXCEPT !.pc = "done", !.res = Append(@, Resolution("continue", "", "default"))]

\* The handler after the out-of-band fetch has settled with outcome o.
\* An OK HTML response is rewritten (new RegExp may throw) and served; any
\* other response is served as fetched; a rejected fetch or body read, or an
\* exception of the rewrite, is caught by the inner catch: abort('failed').
AfterFetch(rules, r, o) ==
    LET f == [r EXCEPT !.pc = "done", !.fetched = o] IN
    IF o \in {"fetchFail", "bodyFail"}
    THEN [f EXCEPT !.res = Append(@, Resolution("abort", "failed", "innerCatch"))]
    ELSE IF o = "okHtml"
    THEN IF rules.find # <<>> /\ ~RegExpCompiles(rules.find)
         THEN [f EXCEPT !.res = Append(@, Resolution("abort", "failed", "innerCatch"))]
         ELSE [f EXCEPT !.res = Append(@, Resolution("respond", "rewritten", "rewrite"))]
    ELSE [f EXCEPT !.res = Append(@, Resolution("respond", "asFetched", "passthrough"))]

\* The requests of page pg.
ReqsOf(pg) == {k \in 1..Len(reqs) : reqs[k].page = pg}
\* The request of the main document of page pg, if it was delivered.
MainReq(pg) == {k \in ReqsOf(pg) : reqs[k].main}
SubReqs(pg) == {k \in ReqsOf(pg) : ~reqs[k].main}
Delivered(pg) ==
    \E k \in MainReq(pg) : reqs[k].res # <<>> /\ reqs[k].res[1].act \in {"respond", "continue"}
Refused(pg) ==
    \E k \in MainReq(pg) : reqs[k].res # <<>> /\ reqs[k].res[1].act = "abort"
AllResolved(pg) == \A k \in ReqsOf(pg) : reqs[k].res # <<>>
\* The requests whose handler has not returned yet.
Unfinished(rs) == SelectSeq(rs, LAMBDA r : r.pc # "done")

(***************************************************************************)
(* Responses                                                               *)
(***************************************************************************)
\* Array.prototype.sort((a, b) => a - b) by insertion.
RECURSIVE Insert(_, _)
Insert(s, x) ==
    IF s = <<>> THEN <<x>>
    ELSE IF x <= Head(s) THEN <<x>> \o s
    ELSE <<Head(s)>> \o Insert(Tail(s), x)
RECURSIVE SortAsc(_)
SortAsc(s) == IF s = <<>> THEN <<>> ELSE Insert(SortAsc(Tail(s)), Head(s))

NonNull(s) == SelectSeq(s, LAMBDA v : v # Null)
Column(ms, f) == [k \in 1..Len(ms) |-> ms[k][f]]

\* Variant: the upper middle element for an even count.
getMedian_UpperMiddle(arr) ==
    IF Len(arr) = 0 THEN Null
    ELSE arr[(Len(arr) \div 2) + 1]

\* Variant: 0 for an empty array.
getMedian_ZeroWhenEmpty(arr) ==
    IF Len(arr) = 0 THEN 0
    ELSE LET mid == Len(arr) \div 2
         IN  IF Len(arr) % 2 # 0 THEN arr[mid + 1] ELSE (arr[mid] + arr[mid + 1]) \div 2

\* getMedian of a sorted array; the metric values of the model are even, so
\* the mean of the two middle elements is an integer.
getMedian(arr) ==
    IF Len(arr) = 0 THEN Null
    ELSE LET mid == Len(arr) \div 2
         IN  IF Len(arr) % 2 # 0 THEN arr[mid + 1] ELSE (arr[mid] + arr[mid + 1]) \div 2

DryRunResult ==
    [status |-> 200, kind |-> "dryRun",
     averageMetrics |-> [FCP |-> DryRunMetric, LCP |-> DryRunMetric],
     individualRuns |-> <<[FCP |-> DryRunMetric, LCP |-> DryRunMetric]>>]
UrlRequired == [status |-> 400, kind |-> "error", error |-> "URL is required"]
TestFailed == [status |-> 500, kind |-> "error", error |-> "Test failed. Check server logs for details."]
\* Variant: individualRuns in reverse order.
Result_Reversed(ms) ==
    [status |-> 200, kind |-> "result",
     averageMetrics |-> [FCP |-> getMedian(SortAsc(NonNull(Column(ms, "FCP")))),
                         LCP |-> getMedian(SortAsc(NonNull(Column(ms, "LCP"))))],
     individualRuns |-> [k \in 1..Len(ms) |-> ms[Len(ms) + 1 - k]]]

Result(ms) ==
    [status |-> 200, kind |-> "result",
     averageMetrics |-> [FCP |-> getMedian(SortAsc(NonNull(Column(ms, "FCP")))),
                         LCP |-> getMedian(SortAsc(NonNull(Column(ms, "LCP"))))],
     individualRuns |-> ms]

(***************************************************************************)
(* The route handler and the global deadline                               *)
(***************************************************************************)
\* The checks at the head of the handler, in the order of the code: the dry
\* run first, then the url.
\* Variant: the url is checked before the dry run.
Validate_UrlFirst(r) ==
    IF r.url = NoUrl THEN "urlRequired"
    ELSE IF r.dryRun THEN "dryRun"
    ELSE "run"

\* Variant: the url is not checked.
Validate_NoUrlCheck(r) ==
    IF r.dryRun THEN "dryRun" ELSE "run"

Validate(r) ==
    IF r.dryRun THEN "dryRun"
    ELSE IF r.url = NoUrl THEN "urlRequired"
    ELSE "run"

\* The errors the race can be rejected with: a puppeteer TimeoutError, the
\* Error of the global deadline, and any other Error.
ErrorName(e) == IF e = "TimeoutError" THEN "TimeoutError" ELSE "Error"
ErrorMessage(e) ==
    IF e = "GlobalTimeout" THEN <<"Global test timeout", ": The test took too long to complete">>
    ELSE IF e = "TimeoutError" THEN <<"Navigation timeout", " of 60000 ms exceeded">>
    ELSE <<"failed">>

\* Variant: the catch block looks at the name of the error only.
CatchBranch_NameOnly(e) ==
    IF ErrorName(e) = "TimeoutError" THEN "puppeteerTimeout" ELSE "other"

\* The branch of the catch block that logs the error: error.name ===
\* 'TimeoutError', then error.message.includes('Global test timeout'), then
\* the rest.
CatchBranch(e) ==
    IF ErrorName(e) = "TimeoutError" THEN "puppeteerTimeout"
    ELSE IF Includes(ErrorMessage(e), <<"Global test timeout">>) THEN "globalTimeout"
    ELSE "other"

\* cause: what the response answers; at: the pipeline step that settled the
\* race ("start" and "timer" when it was not the pipeline); log: the branch
\* of the catch block, for a response sent by it.
Snapshot(cause, at, bs, ps) ==
    [cause |-> cause, at |-> at, browser |-> bs, openPages |-> NumOpen(ps),
     log |-> IF cause \in {"dryRun", "urlRequired", "result"} THEN "none" ELSE CatchBranch(cause)]

Init ==
    /\ req \in [dryRun : BOOLEAN, url : {NoUrl, TestUrl}, rules : RuleSets, runs : 0..MaxRuns]
    /\ hpc = "start"
    /\ ppc = "idle"
    /\ i = 0
    /\ browserVar = FALSE
    /\ browserState = "none"
    /\ race = "none"
    /\ gtimer = "unset"
    /\ pages = <<>>
    /\ reqs = <<>>
    /\ fcp = NoFcp
    /\ fcpTimer = "unset"
    /\ inpage = NoInpage
    /\ allMetrics = <<>>
    /\ rout = NoRun
    /\ perr = "none"
    /\ responses = <<>>
    /\ atResponse = <<>>

\* app.post('/test') up to `await Promise.race`: the dry-run and url answers,
\* or the start of the pipeline (which runs to its first await, of
\* chromium.executablePath) and of the global deadline timer.
H_Start ==
    /\ hpc = "start"
    /\ LET v == Validate(req) IN
       IF v = "run"
       THEN /\ hpc' = "race"
            /\ race' = "pending"
            /\ ppc' = "execPath"
            /\ gtimer' = "armed"
            /\ UNCHANGED <<responses, atResponse>>
       ELSE /\ hpc' = "done"
            /\ responses' = Append(responses, IF v = "dryRun" THEN DryRunResult ELSE UrlRequired)
            /\ atResponse' = Append(atResponse, Snapshot(v, "start", browserState, pages))
            /\ UNCHANGED <<race, ppc, gtimer>>
    /\ UNCHANGED <<req, i, browserVar, browserState, pages, reqs, fcp, fcpTimer,
                   inpage, allMetrics, rout, perr>>

\* The handler after the race has settled: res.json(result) or the catch
\* block's res.status(500), then the finally block, which calls
\* browser.close() if `browser` is assigned.  bv, bs and ps are the values of
\* browserVar, browserState and pages when the race settles.
AfterRace(body, cause, bv, bs, ps) ==
    /\ responses' = Append(responses, body)
    /\ atResponse' = Append(atResponse,
                            Snapshot(cause, IF cause = "GlobalTimeout" THEN "timer" ELSE ppc, bs, ps))
    /\ IF bv
       THEN hpc' = "closing" /\ browserState' = "closing"
       ELSE hpc' = "done" /\ browserState' = bs

\* The pipeline's async function returns: the race is fulfilled if it is
\* still pending, and the handler goes on.
PipelineReturns(ps) ==
    /\ ppc' = "done"
    /\ perr' = perr
    /\ IF race = "pending"
       THEN race' = "fulfilled" /\ AfterRace(Result(allMetrics), "result", browserVar, browserState, ps)
       ELSE UNCHANGED <<race, hpc, browserState, responses, atResponse>>

\* Variant: the catch block answers with the samples collected so far.
PipelineThrows_PartialResult(e, ps) ==
    /\ ppc' = "failed"
    /\ perr' = e
    /\ IF race = "pending"
       THEN race' = "rejected" /\ AfterRace(Result(allMetrics), e, browserVar, browserState, ps)
       ELSE UNCHANGED <<race, hpc, browserState, responses, atResponse>>

\* Variant: the run loop swallows the exception of a run and starts the run
\* again.
PipelineThrows_GoesOn(e, ps) ==
    /\ ppc' = IF browserVar THEN "newPage" ELSE "failed"
    /\ perr' = perr
    /\ UNCHANGED <<race, hpc, browserState, responses, atResponse>>

\* The pipeline's async function throws e: the race is rejected if it is
\* still pending, and the handler goes on in its catch block.
PipelineThrows(e, ps) ==
    /\ ppc' = "failed"
    /\ perr' = e
    /\ IF race = "pending"
       THEN race' = "rejected" /\ AfterRace(TestFailed, e, browserVar, browserState, ps)
       ELSE UNCHANGED <<race, hpc, browserState, responses, atResponse>>

\* Variant: the timer's callback sends the error response itself when the
\* race is already settled.
T_GlobalTimeout_AnswersItself ==
    /\ gtimer = "armed"
    /\ gtimer' = "fired"
    /\ IF race = "pending"
       THEN race' = "rejected" /\ AfterRace(TestFailed, "GlobalTimeout", browserVar, browserState, pages)
       ELSE /\ responses' = Append(responses, TestFailed)
            /\ atResponse' = Append(atResponse, Snapshot("GlobalTimeout", "timer", browserState, pages))
            /\ UNCHANGED <<race, hpc, browserState>>
    /\ UNCHANGED <<req, ppc, i, browserVar, pages, reqs, fcp, fcpTimer, inpage,
                   allMetrics, rout, perr>>

\* The global deadline timer (runs * 90000 ms) fires: it rejects the race if
\* it is still pending.  The timer is never cleared.
T_GlobalTimeout ==
    /\ gtimer = "armed"
    /\ gtimer' = "fired"
    /\ IF race = "pending"
       THEN race' = "rejected" /\ AfterRace(TestFailed, "GlobalTimeout", browserVar, browserState, pages)
       ELSE UNCHANGED <<race, hpc, browserState, responses, atResponse>>
    /\ UNCHANGED <<req, ppc, i, browserVar, pages, reqs, fcp, fcpTimer, inpage,
                   allMetrics, rout, perr>>

\* browser.close() of the finally block completes: the browser and all its
\* pages are gone.
H_CloseDone ==
    /\ hpc = "closing"
    /\ hpc' = "done"
    /\ browserState' = "closed"
    /\ pages' = [k \in 1..Len(pages) |-> [pages[k] EXCEPT !.state = "closed"]]
    /\ UNCHANGED <<req, ppc, i, browserVar, race, gtimer, reqs, fcp, fcpTimer,
                   inpage, allMetrics, rout, perr, responses, atResponse>>

(***************************************************************************)
(* The run pipeline: launch, the run loop, runSingleTest, the screenshot   *)
(***************************************************************************)
\* Variant: the interceptor is attached to every page of the browser, from
\* its creation.
NewPageRec_Intercepted(kind) ==
    [kind |-> kind, state |-> "open", fcpListener |-> FALSE, exposed |-> FALSE,
     observers |-> FALSE, interception |-> TRUE, handler |-> TRUE, throttled |-> FALSE]

\* throttled: the network and CPU emulation of runSingleTest was applied.
NewPageRec(kind) ==
    [kind |-> kind, state |-> "open", fcpListener |-> FALSE, exposed |-> FALSE,
     observers |-> FALSE, interception |-> FALSE, handler |-> FALSE, throttled |-> FALSE]

\* Variant: the page of the previous run is used again.
OpenPage_Reuse(ps, kind) ==
    IF ps = <<>> THEN <<NewPageRec(kind)>>
    ELSE [ps EXCEPT ![Len(ps)] = NewPageRec(kind)]

\* browser.newPage(): one more page on the browser.
OpenPage(ps, kind) == Append(ps, NewPageRec(kind))

\* Variant: the page is left open.
ClosePage_Leaves(ps, k) == ps

\* page.close() on page k.
ClosePage(ps, k) == [ps EXCEPT ![k].state = "closed"]

\* Variant: i <= runs.
LoopContinues_Inclusive(k, runs) == k <= runs

\* The condition of the run loop: for (let i = 0; i < runs; i++).
LoopContinues(k, runs) == k < runs

\* The page runSingleTest (or the screenshot code) is working on.
Cur == Len(pages)
Live == browserState = "open" /\ Cur > 0 /\ pages[Cur].state = "open"

handlerVars == <<race, hpc, browserState, responses, atResponse>>

\* Variant: no finally block; the exception leaves runSingleTest at once.
Throw_NoFinally(e) ==
    /\ rout' = NoRun
    /\ ppc' = "failed"

\* A statement inside runSingleTest's try block throws e: the finally block
\* calls page.close().
Throw(e) ==
    /\ rout' = [NoRun EXCEPT !.kind = "throw", !.err = e]
    /\ ppc' = "closePage"

\* chromium.executablePath() settles; puppeteer.launch is called.
P_ExecPath ==
    /\ ppc = "execPath"
    /\ \E ok \in BOOLEAN :
         IF ok
         THEN ppc' = "launch" /\ UNCHANGED <<perr, handlerVars>>
         ELSE PipelineThrows("Error", pages)
    /\ UNCHANGED <<req, i, browserVar, gtimer, pages, reqs, fcp, fcpTimer, inpage,
                   allMetrics, rout>>

\* puppeteer.launch settles (the browser process needs more than the 0 ms of
\* a deadline of runs = 0); `browser` is assigned and the run loop is entered.
P_Launch ==
    /\ ppc = "launch"
    /\ ~(req.runs = 0 /\ gtimer = "armed")
    /\ \E out \in {"ok", "TimeoutError", "Error"} :
         IF out = "ok"
         THEN /\ browserVar' = TRUE
              /\ browserState' = "open"
              /\ allMetrics' = <<>>
              /\ i' = 0
              /\ ppc' = IF LoopContinues(0, req.runs) THEN "newPage" ELSE "shotNewPage"
              /\ UNCHANGED <<perr, race, hpc, responses, atResponse>>
         ELSE /\ PipelineThrows(out, pages)
              /\ UNCHANGED <<browserVar, allMetrics, i>>
    /\ UNCHANGED <<req, gtimer, pages, reqs, fcp, fcpTimer, inpage, rout>>

\* runSingleTest: browser.newPage() settles (outside the try block).
R_NewPage ==
    /\ ppc = "newPage"
    /\ \E ok \in BOOLEAN :
         IF ok /\ browserState = "open"
         THEN /\ pages' = OpenPage(pages, "run")
              /\ ppc' = "configure"
              /\ UNCHANGED <<perr, handlerVars>>
         ELSE /\ PipelineThrows("Error", pages)
              /\ UNCHANGED <<pages>>
    /\ UNCHANGED <<req, i, browserVar, gtimer, allMetrics, reqs, inpage, fcp, fcpTimer, rout>>

\* Viewport, user agent, cache policy and CDP throttling are applied; the
\* 'fcp-reported' listener is registered and page.exposeFunction is called.
R_Configure ==
    /\ ppc = "configure"
    /\ \E ok \in BOOLEAN :
         IF ok /\ Live
         THEN /\ pages' = [pages EXCEPT ![Cur].fcpListener = TRUE, ![Cur].throttled = TRUE]
              /\ ppc' = "expose"
              /\ rout' = rout
         ELSE Throw("Error") /\ pages' = pages
    /\ UNCHANGED <<req, i, browserVar, gtimer, reqs, fcp, fcpTimer, inpage,
                   allMetrics, perr, handlerVars>>

\* Variant: page.exposeFunction is not awaited and has not settled when the
\* pipeline goes on.
R_Expose_NotAwaited ==
    /\ ppc = "expose"
    /\ ppc' = "observers"
    /\ UNCHANGED <<req, i, browserVar, gtimer, pages, reqs, fcp, fcpTimer, inpage,
                   allMetrics, rout, perr, handlerVars>>

\* injectPerformanceObservers: page.exposeFunction('__reportFcp') settles;
\* page.evaluateOnNewDocument is called.
R_Expose ==
    /\ ppc = "expose"
    /\ \E ok \in BOOLEAN :
         IF ok /\ Live
         THEN /\ pages' = [pages EXCEPT ![Cur].exposed = TRUE]
              /\ ppc' = "observers"
              /\ rout' = rout
         ELSE Throw("Error") /\ pages' = pages
    /\ UNCHANGED <<req, i, browserVar, gtimer, reqs, fcp, fcpTimer, inpage,
                   allMetrics, perr, handlerVars>>

\* page.evaluateOnNewDocument settles; page.setRequestInterception(true) is
\* called.
R_Observers ==
    /\ ppc = "observers"
    /\ \E ok \in BOOLEAN :
         IF ok /\ Live
         THEN /\ pages' = [pages EXCEPT ![Cur].observers = TRUE]
              /\ ppc' = "intercept"
              /\ rout' = rout
         ELSE Throw("Error") /\ pages' = pages
    /\ UNCHANGED <<req, i, browserVar, gtimer, reqs, fcp, fcpTimer, inpage,
                   allMetrics, perr, handlerVars>>

\* Variant: page.goto is called before the handler is registered.
R_Intercept_HandlerLate ==
    /\ ppc = "intercept"
    /\ \E ok \in BOOLEAN :
         IF ok /\ Live
         THEN /\ pages' = [pages EXCEPT ![Cur].interception = TRUE]
              /\ fcp' = [state |-> "pending", value |-> Null]
              /\ fcpTimer' = "armed"
              /\ ppc' = "goto"
              /\ rout' = rout
         ELSE Throw("Error") /\ UNCHANGED <<pages, fcp, fcpTimer>>
    /\ UNCHANGED <<req, i, browserVar, gtimer, reqs, inpage, allMetrics, perr,
                   handlerVars>>

\* page.setRequestInterception(true) settles; setupRequestInterceptor
\* registers the handler, the FCP race is armed with its 30 s timer and
\* page.goto is called.
R_Intercept ==
    /\ ppc = "intercept"
    /\ \E ok \in BOOLEAN :
         IF ok /\ Live
         THEN /\ pages' = [pages EXCEPT ![Cur].interception = TRUE, ![Cur].handler = TRUE]
              /\ fcp' = [state |-> "pending", value |-> Null]
              /\ fcpTimer' = "armed"
              /\ ppc' = "goto"
              /\ rout' = rout
         ELSE Throw("Error") /\ UNCHANGED <<pages, fcp, fcpTimer>>
    /\ UNCHANGED <<req, i, browserVar, gtimer, reqs, inpage, allMetrics, perr,
                   handlerVars>>

\* The 'request' event of the navigation document of page.goto(url): the
\* handler runs up to its first await.
I_DeliverMain ==
    /\ ppc = "goto"
    /\ Live
    /\ pages[Cur].interception /\ pages[Cur].handler
    /\ MainReq(Cur) = {}
    /\ reqs' = Append(reqs, HandleRequest(req.rules, NewRequest(Cur, req.url, "document", TRUE, TRUE)))
    /\ UNCHANGED <<req, hpc, ppc, i, browserVar, browserState, race, gtimer, pages,
                   fcp, fcpTimer, inpage, allMetrics, rout, perr, responses, atResponse>>

\* The 'request' event of a subresource or sub-frame of the delivered
\* document (a sub-frame document is a navigation request too).
I_DeliverSub ==
    /\ ppc = "goto"
    /\ Live
    /\ pages[Cur].interception /\ pages[Cur].handler
    /\ Delivered(Cur)
    /\ Cardinality(SubReqs(Cur)) < MaxSubrequests
    /\ \E s \in SubRequests :
         reqs' = Append(reqs, HandleRequest(req.rules, NewRequest(Cur, s[1], s[2], s[2] = "document", FALSE)))
    /\ UNCHANGED <<req, hpc, ppc, i, browserVar, browserState, race, gtimer, pages,
                   fcp, fcpTimer, inpage, allMetrics, rout, perr, responses, atResponse>>

\* The out-of-band fetch of request k (and the read of its body) settles;
\* the handler runs to its end.
I_FetchDone ==
    /\ \E k \in 1..Len(reqs) :
         /\ reqs[k].pc = "fetching"
         /\ \E o \in FetchOutcomes :
              reqs' = [reqs EXCEPT ![k] = AfterFetch(req.rules, @, o)]
    /\ UNCHANGED <<req, hpc, ppc, i, browserVar, browserState, race, gtimer, pages,
                   fcp, fcpTimer, inpage, allMetrics, rout, perr, responses, atResponse>>

\* Variant: the 'fcp-reported' event finds no listener and the delivery is
\* lost.
P_ReportFcp_Missed ==
    /\ ppc \in {"goto", "settle", "fcp"}
    /\ Live
    /\ Delivered(Cur)
    /\ pages[Cur].observers /\ pages[Cur].exposed
    /\ ~inpage.fcpReported
    /\ inpage' = [inpage EXCEPT !.fcpReported = TRUE]
    /\ pages' = [pages EXCEPT ![Cur].fcpListener = FALSE]
    /\ UNCHANGED <<req, hpc, ppc, i, browserVar, browserState, race, gtimer, reqs,
                   fcp, fcpTimer, allMetrics, rout, perr, responses, atResponse>>

\* The in-page FCP observer sees first-contentful-paint: the guard flag is
\* set and __reportFcp emits 'fcp-reported', which resolves fcpPromise (the
\* listener is a `once` listener) and so the race, clearing the 30 s timer.
P_ReportFcp ==
    /\ ppc \in {"goto", "settle", "fcp"}
    /\ Live
    /\ Delivered(Cur)
    /\ pages[Cur].observers /\ pages[Cur].exposed
    /\ ~inpage.fcpReported
    /\ \E v \in FcpValues :
         /\ inpage' = [inpage EXCEPT !.fcpReported = TRUE]
         /\ pages' = [pages EXCEPT ![Cur].fcpListener = FALSE]
         /\ IF pages[Cur].fcpListener /\ fcp.state = "pending"
            THEN fcp' = [state |-> "settled", value |-> v] /\ fcpTimer' = "cleared"
            ELSE UNCHANGED <<fcp, fcpTimer>>
    /\ UNCHANGED <<req, hpc, ppc, i, browserVar, browserState, race, gtimer, reqs,
                   allMetrics, rout, perr, responses, atResponse>>

\* The in-page LCP observer appends a candidate to window.__lcpUpdates.
P_LcpUpdate ==
    /\ ppc \in {"goto", "settle", "fcp"}
    /\ Live
    /\ Delivered(Cur)
    /\ pages[Cur].observers
    /\ Len(inpage.lcpUpdates) < MaxLcpUpdates
    /\ \E v \in LcpValues :
         inpage' = [inpage EXCEPT !.lcpUpdates = Append(@, v)]
    /\ UNCHANGED <<req, hpc, ppc, i, browserVar, browserState, race, gtimer, pages,
                   reqs, fcp, fcpTimer, allMetrics, rout, perr, responses, atResponse>>

\* The 30 s FCP timer fires: the race resolves with null.
T_FcpTimeout ==
    /\ fcpTimer = "armed"
    /\ ppc \in {"goto", "settle", "fcp"}
    /\ fcpTimer' = "fired"
    /\ fcp' = IF fcp.state = "pending" THEN [state |-> "settled", value |-> Null] ELSE fcp
    /\ UNCHANGED <<req, hpc, ppc, i, browserVar, browserState, race, gtimer, pages,
                   reqs, inpage, allMetrics, rout, perr, responses, atResponse>>

\* Variant: no settle delay; fcpMetricPromise is awaited at the load event.
R_GotoLoad_NoSettle ==
    /\ ppc = "goto"
    /\ Live
    /\ Delivered(Cur)
    /\ AllResolved(Cur)
    /\ ppc' = "fcp"
    /\ reqs' = Unfinished(reqs)
    /\ UNCHANGED <<req, hpc, i, browserVar, browserState, race, gtimer, pages,
                   fcp, fcpTimer, inpage, allMetrics, rout, perr, responses, atResponse>>

\* page.goto resolves at the load event: the document was served and no
\* intercepted request of the page is still unresolved.
R_GotoLoad ==
    /\ ppc = "goto"
    /\ Live
    /\ Delivered(Cur)
    /\ AllResolved(Cur)
    /\ ppc' = "settle"
    /\ reqs' = Unfinished(reqs)
    /\ UNCHANGED <<req, hpc, i, browserVar, browserState, race, gtimer, pages,
                   fcp, fcpTimer, inpage, allMetrics, rout, perr, responses, atResponse>>

\* page.goto rejects: with a TimeoutError after 60 s, or with an error when
\* the navigation request was aborted or the browser is gone.
R_GotoFail ==
    /\ ppc = "goto"
    /\ \E e \in {"TimeoutError", "Error"} :
         /\ \/ e = "TimeoutError" /\ Live
            \/ e = "Error" /\ (~Live \/ Refused(Cur))
         /\ Throw(e)
    /\ UNCHANGED <<req, i, browserVar, gtimer, pages, reqs, fcp, fcpTimer, inpage,
                   allMetrics, perr, handlerVars>>

\* The 2 s settle delay elapses; fcpMetricPromise is awaited.
R_Settle ==
    /\ ppc = "settle"
    /\ ppc' = "fcp"
    /\ UNCHANGED <<req, hpc, i, browserVar, browserState, race, gtimer, pages, reqs,
                   fcp, fcpTimer, inpage, allMetrics, rout, perr, responses, atResponse>>

\* fcpMetricPromise is settled; page.evaluate(__getFinalLcp) is called.
R_CollectFcp ==
    /\ ppc = "fcp"
    /\ fcp.state = "settled"
    /\ ppc' = "lcp"
    /\ UNCHANGED <<req, hpc, i, browserVar, browserState, race, gtimer, pages, reqs,
                   fcp, fcpTimer, inpage, allMetrics, rout, perr, responses, atResponse>>

\* Variant: the largest startTime of the updates.
getFinalLcp_Max(updates) ==
    IF Len(updates) > 0
    THEN CHOOSE v \in {updates[k] : k \in 1..Len(updates)} :
             \A k \in 1..Len(updates) : updates[k] <= v
    ELSE Null

\* window.__getFinalLcp(): the startTime of the last update, or null.
getFinalLcp(updates) ==
    IF Len(updates) > 0 THEN updates[Len(updates)] ELSE Null

\* page.evaluate settles; the sample is returned and the finally block calls
\* page.close().
R_CollectLcp ==
    /\ ppc = "lcp"
    /\ \E ok \in BOOLEAN :
         IF ok /\ Live
         THEN /\ rout' = [kind |-> "return", err |-> "none", FCP |-> fcp.value,
                          LCP |-> getFinalLcp(inpage.lcpUpdates)]
              /\ ppc' = "closePage"
         ELSE Throw("Error")
    /\ UNCHANGED <<req, i, browserVar, gtimer, pages, reqs, fcp, fcpTimer, inpage,
                   allMetrics, perr, handlerVars>>

\* page.close() of the finally block settles.  A returned sample is pushed
\* and the loop goes on to the next run or, after the last one, to the
\* medians and the screenshot page; a thrown error leaves the pipeline, and
\* so does the error of page.close() itself when the browser is gone.
\* The closed page's document, its FCP race and its finished request
\* handlers are gone with the run.
R_ClosePage ==
    /\ ppc = "closePage"
    /\ reqs' = Unfinished(reqs)
    /\ inpage' = NoInpage
    /\ fcp' = NoFcp
    /\ fcpTimer' = "unset"
    /\ rout' = NoRun
    /\ LET ps == ClosePage(pages, Cur) IN
         /\ pages' = ps
         /\ IF rout.kind = "return" /\ browserState = "open"
            THEN /\ allMetrics' = Append(allMetrics, [FCP |-> rout.FCP, LCP |-> rout.LCP])
                 /\ i' = i + 1
                 /\ ppc' = IF LoopContinues(i + 1, req.runs) THEN "newPage" ELSE "shotNewPage"
                 /\ UNCHANGED <<perr, handlerVars>>
            ELSE /\ PipelineThrows(IF rout.kind = "throw" /\ browserState = "open"
                                   THEN rout.err ELSE "Error", ps)
                 /\ UNCHANGED <<allMetrics, i>>
    /\ UNCHANGED <<req, browserVar, gtimer>>

\* The final screenshot: browser.newPage() settles.
S_NewPage ==
    /\ ppc = "shotNewPage"
    /\ \E ok \in BOOLEAN :
         IF ok /\ browserState = "open"
         THEN /\ pages' = OpenPage(pages, "shot")
              /\ ppc' = "shotViewport"
              /\ UNCHANGED <<perr, handlerVars>>
         ELSE PipelineThrows("Error", pages) /\ pages' = pages
    /\ UNCHANGED <<req, i, browserVar, gtimer, reqs, fcp, fcpTimer, inpage,
                   allMetrics, rout>>

\* page.setViewport settles; page.goto(url) is called (no interception).
S_Viewport ==
    /\ ppc = "shotViewport"
    /\ \E ok \in BOOLEAN :
         IF ok /\ Live
         THEN ppc' = "shotGoto" /\ UNCHANGED <<perr, handlerVars>>
         ELSE PipelineThrows("Error", pages)
    /\ UNCHANGED <<req, i, browserVar, gtimer, pages, reqs, fcp, fcpTimer, inpage,
                   allMetrics, rout>>

\* Variant: a failed screenshot navigation is tolerated and the result is
\* returned without a screenshot.
S_Goto_Optional ==
    /\ ppc = "shotGoto"
    /\ \E out \in {"ok", "TimeoutError", "Error"} :
         IF out = "ok" /\ Live
         THEN ppc' = "shotCapture" /\ UNCHANGED <<perr, handlerVars>>
         ELSE PipelineReturns(pages)
    /\ UNCHANGED <<req, i, browserVar, gtimer, pages, reqs, fcp, fcpTimer, inpage,
                   allMetrics, rout>>

\* The screenshot navigation settles; page.screenshot is called.
S_Goto ==
    /\ ppc = "shotGoto"
    /\ \E out \in {"ok", "TimeoutError", "Error"} :
         IF out = "ok" /\ Live
         THEN ppc' = "shotCapture" /\ UNCHANGED <<perr, handlerVars>>
         ELSE PipelineThrows(IF out = "ok" THEN "Error" ELSE out, pages)
    /\ UNCHANGED <<req, i, browserVar, gtimer, pages, reqs, fcp, fcpTimer, inpage,
                   allMetrics, rout>>

\* page.screenshot settles; page.close() is called.
S_Capture ==
    /\ ppc = "shotCapture"
    /\ \E ok \in BOOLEAN :
         IF ok /\ Live
         THEN ppc' = "shotClose" /\ UNCHANGED <<perr, handlerVars>>
         ELSE PipelineThrows("Error", pages)
    /\ UNCHANGED <<req, i, browserVar, gtimer, pages, reqs, fcp, fcpTimer, inpage,
                   allMetrics, rout>>

\* page.close() of the screenshot page settles; the result is returned.
S_Close ==
    /\ ppc = "shotClose"
    /\ \E ok \in BOOLEAN :
         IF ok /\ Live
         THEN LET ps == ClosePage(pages, Cur) IN pages' = ps /\ PipelineReturns(ps)
         ELSE pages' = pages /\ PipelineThrows("Error", pages)
    /\ UNCHANGED <<req, i, browserVar, gtimer, reqs, fcp, fcpTimer, inpage,
                   allMetrics, rout>>

Next ==
    \/ H_Start
    \/ T_GlobalTimeout
    \/ H_CloseDone
    \/ P_ExecPath
    \/ P_Launch
    \/ R_NewPage
    \/ R_Configure
    \/ R_Expose
    \/ R_Observers
    \/ R_Intercept
    \/ I_DeliverMain
    \/ I_DeliverSub
    \/ I_FetchDone
    \/ P_ReportFcp
    \/ P_LcpUpdate
    \/ T_FcpTimeout
    \/ R_GotoLoad
    \/ R_GotoFail
    \/ R_Settle
    \/ R_CollectFcp
    \/ R_CollectLcp
    \/ R_ClosePage
    \/ S_NewPage
    \/ S_Viewport
    \/ S_Goto
    \/ S_Capture
    \/ S_Close

Spec == Init /\ [][Next]_vars

\* The timers fire and a settled promise's continuation runs: the event loop
\* of the server process keeps turning.
FairSpec ==
    Spec /\ WF_vars(T_GlobalTimeout) /\ WF_vars(T_FcpTimeout) /\ WF_vars(R_CollectFcp)

(***************************************************************************)
(* The aggregation alone: any samples of the run loop, then the medians    *)
(***************************************************************************)
AnyRequest == [dryRun |-> FALSE, url |-> TestUrl, rules |-> RulesBlockAd, runs |-> MaxRuns]

\* The pipeline after the run loop, with the samples it may have collected.
MedianInit ==
    /\ allMetrics \in UNION {[1..n -> [FCP : SampleFcpValues, LCP : SampleLcpValues]] : n \in 0..MaxSamples}
    /\ req = [AnyRequest EXCEPT !.runs = Len(allMetrics)]
    /\ hpc = "race"
    /\ ppc = "shotNewPage"
    /\ i = Len(allMetrics)
    /\ browserVar = TRUE
    /\ browserState = "open"
    /\ race = "pending"
    /\ gtimer = "armed"
    /\ pages = <<>>
    /\ reqs = <<>>
    /\ fcp = NoFcp
    /\ fcpTimer = "unset"
    /\ inpage = NoInpage
    /\ rout = NoRun
    /\ perr = "none"
    /\ responses = <<>>
    /\ atResponse = <<>>

\* The medians are computed and the result is assembled and sent.
M_Aggregate ==
    /\ ppc = "shotNewPage"
    /\ ppc' = "done"
    /\ race' = "fulfilled"
    /\ hpc' = "closing"
    /\ browserState' = "closing"
    /\ responses' = Append(responses, Result(allMetrics))
    /\ atResponse' = Append(atResponse, Snapshot("result", ppc, browserState, pages))
    /\ UNCHANGED <<req, i, browserVar, gtimer, pages, reqs, fcp, fcpTimer, inpage,
                   allMetrics, rout, perr>>

MedianNext == M_Aggregate

MedianSpec == MedianInit /\ [][MedianNext]_vars

(***************************************************************************)
(* The LCP log alone: the in-page updates and the pull of the last one     *)
(***************************************************************************)
\* A run after the settle delay, the document's LCP log still empty.
LcpInit ==
    /\ req = [AnyRequest EXCEPT !.runs = 1]
    /\ hpc = "race"
    /\ ppc = "lcp"
    /\ i = 0
    /\ browserVar = TRUE
    /\ browserState = "open"
    /\ race = "pending"
    /\ gtimer = "armed"
    /\ pages = <<[NewPageRec("run") EXCEPT !.exposed = TRUE, !.observers = TRUE, !.throttled = TRUE,
                                            !.interception = TRUE, !.handler = TRUE]>>
    /\ reqs = <<>>
    /\ fcp = [state |-> "settled", value |-> Null]
    /\ fcpTimer = "fired"
    /\ inpage = NoInpage
    /\ allMetrics = <<>>
    /\ rout = NoRun
    /\ perr = "none"
    /\ responses = <<>>
    /\ atResponse = <<>>

\* The LCP observer pushes an entry before the pull.
L_Update ==
    /\ ppc = "lcp"
    /\ Len(inpage.lcpUpdates) < MaxLcpEntries
    /\ \E v \in LcpEntryValues :
         inpage' = [inpage EXCEPT !.lcpUpdates = Append(@, v)]
    /\ UNCHANGED <<req, hpc, ppc, i, browserVar, browserState, race, gtimer, pages,
                   reqs, fcp, fcpTimer, allMetrics, rout, perr, responses, atResponse>>

\* page.evaluate(() => window.__getFinalLcp()) runs in the page and settles.
L_Pull ==
    /\ ppc = "lcp"
    /\ rout' = [kind |-> "return", err |-> "none", FCP |-> fcp.value,
                LCP |-> getFinalLcp(inpage.lcpUpdates)]
    /\ ppc' = "closePage"
    /\ UNCHANGED <<req, hpc, i, browserVar, browserState, race, gtimer, pages, reqs,
                   fcp, fcpTimer, inpage, allMetrics, perr, responses, atResponse>>

LcpNext == L_Update \/ L_Pull

LcpSpec == LcpInit /\ [][LcpNext]_vars

(***************************************************************************)
(* The document rewrite alone: one page at its navigation, the fetched     *)
(* document and the defer and html_replace rules                           *)
(***************************************************************************)
\* A script opening tag of the body: the value of its src attribute, the
\* quote character around it, and its other attributes in order.
ScriptTag(src, quote, attrs) == [t |-> "script", src |-> src, quote |-> quote, attrs |-> attrs]
\* Any other piece of the body, a word of text.
Text(w) == [t |-> "text", w |-> w]

\* The pieces a fetched body is made of.
BodyElements ==
    {ScriptTag(<<"l", ".", "j">>, "double", <<>>),
     ScriptTag(<<"l", "x", "j">>, "double", <<>>),
     ScriptTag(<<"L", ".", "J">>, "double", <<>>),
     ScriptTag(<<"l", ".", "j">>, "single", <<>>),
     ScriptTag(<<"a">>, "double", <<"async">>),
     Text("defer")}
Bodies == UNION {[1..n -> BodyElements] : n \in 0..MaxElements}

\* fetchResponse: status, content-type header and body.
FetchedResponses == [status : {200, 404}, contentType : {"text/html", "image/png"}, body : Bodies]

\* rules with defer fragments and html_replace.
RewriteRules ==
    [defined : {TRUE}, hasBlock : {FALSE}, block : {<<>>},
     defer : {<<>>, << <<"l", ".", "j">> >>, << <<"a">> >>, << <<"l", ".", "j">>, <<"a">> >>},
     find : {<<>>, <<"defer">>, <<"async">>},
     replace : {"async", "defer"}]

\* Case folding of the 'i' flag.
Lower(c) == IF c = "L" THEN "l" ELSE IF c = "J" THEN "j" ELSE c
\* One pattern character against one character: '.' matches any character.
CharMatches(pc, c) == pc = "." \/ Lower(pc) = Lower(c)
\* The pattern [^"]*f[^"]* against an attribute value: f, read as a regular
\* expression with the 'i' flag, matches somewhere in it.
RegexIncludes(v, f) ==
    \E k \in 0..(Len(v) - Len(f)) : \A j \in 1..Len(f) : CharMatches(f[j], v[k + j])

\* body.replace(regex, '$1 defer>') for one fragment: a script tag with a
\* double-quoted src that the pattern matches gets ' defer' before its '>'.
DeferOne(body, f) ==
    [k \in 1..Len(body) |->
        IF body[k].t = "script" /\ body[k].quote = "double" /\ RegexIncludes(body[k].src, f)
        THEN [body[k] EXCEPT !.attrs = Append(@, "defer")]
        ELSE body[k]]

\* (rules.defer || []).forEach: the fragments in list order.
RECURSIVE DeferAll(_, _)
DeferAll(body, fragments) ==
    IF fragments = <<>> THEN body
    ELSE DeferAll(DeferOne(body, Head(fragments)), Tail(fragments))

\* body.replace(new RegExp(find, 'g'), replace) for a find that is a word:
\* every occurrence of the word, in the text and in the tags.
ReplaceWord(w, find, repl) == IF find = <<w>> THEN repl ELSE w
HtmlReplace(body, find, repl) ==
    [k \in 1..Len(body) |->
        IF body[k].t = "text"
        THEN [body[k] EXCEPT !.w = ReplaceWord(@, find, repl)]
        ELSE [body[k] EXCEPT !.attrs = [n \in 1..Len(@) |-> ReplaceWord(@[n], find, repl)]]]

\* Variant: html_replace before the defer rules.
RewriteBody_ReplaceFirst(rules, body) ==
    DeferAll(IF rules.find # <<>> THEN HtmlReplace(body, rules.find, rules.replace) ELSE body,
             rules.defer)

\* The rewrite of an OK HTML body: the defer rules, then html_replace.
RewriteBody(rules, body) ==
    LET deferred == DeferAll(body, rules.defer)
    IN  IF rules.find # <<>> THEN HtmlReplace(deferred, rules.find, rules.replace) ELSE deferred

\* A pattern of the rules for which new RegExp throws.
RewriteThrows(rules) ==
    \/ \E k \in 1..Len(rules.defer) : ~RegExpCompiles(rules.defer[k])
    \/ rules.find # <<>> /\ ~RegExpCompiles(rules.find)

Ok(resp) == resp.status >= 200 /\ resp.status <= 299
IsHtml(resp) == resp.contentType = "text/html"

\* Variant: the body is rewritten whatever the status and the content type.
RespondDocument_RewritesAll(rules, r, resp) ==
    LET f == [r EXCEPT !.pc = "done", !.fetched = resp] IN
    IF RewriteThrows(rules)
    THEN [f EXCEPT !.res = Append(@, Resolution("abort", "failed", "innerCatch"))]
    ELSE [f EXCEPT !.res = Append(@, Resolution("respond",
                [status |-> resp.status, contentType |-> resp.contentType,
                 body |-> RewriteBody(rules, resp.body)], "rewrite"))]

\* The handler after the fetch has answered with resp: an OK HTML response
\* is rewritten and served with the fetched status and headers; any other
\* response is served as fetched.
RespondDocument(rules, r, resp) ==
    LET f == [r EXCEPT !.pc = "done", !.fetched = resp] IN
    IF Ok(resp) /\ IsHtml(resp)
    THEN IF RewriteThrows(rules)
         THEN [f EXCEPT !.res = Append(@, Resolution("abort", "failed", "innerCatch"))]
         ELSE [f EXCEPT !.res = Append(@, Resolution("respond",
                     [status |-> resp.status, contentType |-> resp.contentType,
                      body |-> RewriteBody(rules, resp.body)], "rewrite"))]
    ELSE [f EXCEPT !.res = Append(@, Resolution("respond",
                [status |-> resp.status, contentType |-> resp.contentType,
                 body |-> resp.body], "passthrough"))]

\* A run at the call of page.goto, everything installed on its page.
RewriteInit ==
    /\ req \in [dryRun : {FALSE}, url : {TestUrl}, rules : RewriteRules, runs : {1}]
    /\ hpc = "race"
    /\ ppc = "goto"
    /\ i = 0
    /\ browserVar = TRUE
    /\ browserState = "open"
    /\ race = "pending"
    /\ gtimer = "armed"
    /\ pages = <<[NewPageRec("run") EXCEPT !.fcpListener = TRUE, !.exposed = TRUE,
                                            !.observers = TRUE, !.throttled = TRUE,
                                            !.interception = TRUE, !.handler = TRUE]>>
    /\ reqs = <<>>
    /\ fcp = [state |-> "pending", value |-> Null]
    /\ fcpTimer = "armed"
    /\ inpage = NoInpage
    /\ allMetrics = <<>>
    /\ rout = NoRun
    /\ perr = "none"
    /\ responses = <<>>
    /\ atResponse = <<>>

\* The 'request' event of the navigation document.
W_DeliverMain ==
    /\ reqs = <<>>
    /\ reqs' = <<HandleRequest(req.rules, NewRequest(Cur, req.url, "document", TRUE, TRUE))>>
    /\ UNCHANGED <<req, hpc, ppc, i, browserVar, browserState, race, gtimer, pages,
                   fcp, fcpTimer, inpage, allMetrics, rout, perr, responses, atResponse>>

\* The fetch of the document answers; the handler runs to its end.
W_FetchDone ==
    /\ Len(reqs) = 1
    /\ reqs[1].pc = "fetching"
    /\ \E resp \in FetchedResponses :
         reqs' = [reqs EXCEPT ![1] = RespondDocument(req.rules, @, resp)]
    /\ UNCHANGED <<req, hpc, ppc, i, browserVar, browserState, race, gtimer, pages,
                   fcp, fcpTimer, inpage, allMetrics, rout, perr, responses, atResponse>>

\* The 'request' event of a script of the served document.
W_DeliverSub ==
    /\ Len(reqs) = 1
    /\ reqs[1].pc = "done"
    /\ reqs[1].res[1].act = "respond"
    /\ \E k \in 1..Len(reqs[1].res[1].arg.body) :
         /\ reqs[1].res[1].arg.body[k].t = "script"
         /\ reqs' = Append(reqs, HandleRequest(req.rules,
                        NewRequest(Cur, reqs[1].res[1].arg.body[k].src, "script", FALSE, FALSE)))
    /\ UNCHANGED <<req, hpc, ppc, i, browserVar, browserState, race, gtimer, pages,
                   fcp, fcpTimer, inpage, allMetrics, rout, perr, responses, atResponse>>

RewriteNext == W_DeliverMain \/ W_FetchDone \/ W_DeliverSub

RewriteSpec == RewriteInit /\ [][RewriteNext]_vars

(***************************************************************************)
(* The request stream of one page alone: the navigation document and       *)
(* several subrequests, handled one by one and concurrently                *)
(***************************************************************************)
\* A run at the call of page.goto, everything installed on its page.
StreamInit ==
    /\ req \in [dryRun : {FALSE}, url : {TestUrl}, rules : RuleSets, runs : {1}]
    /\ hpc = "race"
    /\ ppc = "goto"
    /\ i = 0
    /\ browserVar = TRUE
    /\ browserState = "open"
    /\ race = "pending"
    /\ gtimer = "armed"
    /\ pages = <<[NewPageRec("run") EXCEPT !.fcpListener = TRUE, !.exposed = TRUE,
                                            !.observers = TRUE, !.throttled = TRUE,
                                            !.interception = TRUE, !.handler = TRUE]>>
    /\ reqs = <<>>
    /\ fcp = [state |-> "pending", value |-> Null]
    /\ fcpTimer = "armed"
    /\ inpage = NoInpage
    /\ allMetrics = <<>>
    /\ rout = NoRun
    /\ perr = "none"
    /\ responses = <<>>
    /\ atResponse = <<>>

\* The 'request' event of a subresource or sub-frame of the served document,
\* while handlers of earlier requests may still wait for their fetch.
Q_DeliverSub ==
    /\ ppc = "goto"
    /\ Live
    /\ pages[Cur].interception /\ pages[Cur].handler
    /\ Delivered(Cur)
    /\ Cardinality(SubReqs(Cur)) < MaxStreamRequests
    /\ \E s \in SubRequests :
         reqs' = Append(reqs, HandleRequest(req.rules, NewRequest(Cur, s[1], s[2], s[2] = "document", FALSE)))
    /\ UNCHANGED <<req, hpc, ppc, i, browserVar, browserState, race, gtimer, pages,
                   fcp, fcpTimer, inpage, allMetrics, rout, perr, responses, atResponse>>

StreamNext == I_DeliverMain \/ Q_DeliverSub \/ I_FetchDone

StreamSpec == StreamInit /\ [][StreamNext]_vars

(***************************************************************************)
(* The configuration of a run's page alone (runSingleTest, lines 84-125)   *)
(***************************************************************************)
Modes == {"custom", "pagespeed-mobile", "pagespeed-desktop", "lighthouse", "mobile"}

\* Variant: a mode that is not a pagespeed mode gets the desktop profile.
ThrottlingConfig_DesktopDefault(mode) ==
    IF mode = "pagespeed-mobile"
    THEN [latency |-> 150, cpu |-> 4, width |-> 412, height |-> 823, userAgent |-> "mobile"]
    ELSE [latency |-> 40, cpu |-> 1, width |-> 1350, height |-> 940, userAgent |-> "desktop"]

\* throttlingConfig, the viewport and the user agent by mode.
ThrottlingConfig(mode) ==
    IF mode = "pagespeed-mobile"
    THEN [latency |-> 150, cpu |-> 4, width |-> 412, height |-> 823, userAgent |-> "mobile"]
    ELSE IF mode = "pagespeed-desktop"
    THEN [latency |-> 40, cpu |-> 1, width |-> 1350, height |-> 940, userAgent |-> "desktop"]
    ELSE [latency |-> 40, cpu |-> 4, width |-> 1280, height |-> 800, userAgent |-> "default"]

\* The settings of a fresh page.
FreshConfig ==
    [viewport |-> <<>>, userAgent |-> "default", cacheEnabled |-> TRUE, extraHeaders |-> FALSE,
     session |-> FALSE, network |-> <<>>, cpu |-> <<>>]

\* runSingleTest after browser.newPage(); inpage holds the page's settings.
ConfigInit ==
    /\ req \in [dryRun : {FALSE}, url : {TestUrl}, rules : {RulesBlockAd}, runs : {1},
                mode : Modes, disableCache : BOOLEAN]
    /\ hpc = "race"
    /\ ppc = "setViewport"
    /\ i = 0
    /\ browserVar = TRUE
    /\ browserState = "open"
    /\ race = "pending"
    /\ gtimer = "armed"
    /\ pages = <<NewPageRec("run")>>
    /\ reqs = <<>>
    /\ fcp = NoFcp
    /\ fcpTimer = "unset"
    /\ inpage = FreshConfig
    /\ allMetrics = <<>>
    /\ rout = NoRun
    /\ perr = "none"
    /\ responses = <<>>
    /\ atResponse = <<>>

configVars == <<req, hpc, i, browserVar, browserState, race, gtimer, pages, reqs, fcp,
                fcpTimer, allMetrics, perr, responses, atResponse>>

\* An awaited call of the configuration settles: it has its effect and the
\* next call is made, or it rejects and the finally block is entered.
ConfigStep(at, effect, next) ==
    /\ ppc = at
    /\ \E ok \in BOOLEAN :
         IF ok
         THEN inpage' = effect /\ ppc' = next /\ rout' = rout
         ELSE inpage' = inpage /\ Throw("Error")
    /\ UNCHANGED configVars

G_SetViewport ==
    LET c == ThrottlingConfig(req.mode) IN
    ConfigStep("setViewport", [inpage EXCEPT !.viewport = <<c.width, c.height>>],
               IF req.mode \in {"pagespeed-mobile", "pagespeed-desktop"}
               THEN "setUserAgent" ELSE "setCacheEnabled")

G_SetUserAgent ==
    ConfigStep("setUserAgent", [inpage EXCEPT !.userAgent = ThrottlingConfig(req.mode).userAgent],
               "setCacheEnabled")

G_SetCacheEnabled ==
    ConfigStep("setCacheEnabled", [inpage EXCEPT !.cacheEnabled = ~req.disableCache],
               IF req.disableCache THEN "setExtraHTTPHeaders" ELSE "createCDPSession")

G_SetExtraHeaders ==
    ConfigStep("setExtraHTTPHeaders", [inpage EXCEPT !.extraHeaders = TRUE], "createCDPSession")

G_CreateSession ==
    ConfigStep("createCDPSession", [inpage EXCEPT !.session = TRUE], "emulateNetwork")

G_EmulateNetwork ==
    ConfigStep("emulateNetwork",
               [inpage EXCEPT !.network = Append(@, ThrottlingConfig(req.mode).latency)],
               "setCPUThrottlingRate")

\* The last call of the configuration; the FCP listener and the observers
\* come next.
G_SetCpuRate ==
    ConfigStep("setCPUThrottlingRate",
               [inpage EXCEPT !.cpu = Append(@, ThrottlingConfig(req.mode).cpu)],
               "expose")

ConfigNext ==
    \/ G_SetViewport
    \/ G_SetUserAgent
    \/ G_SetCacheEnabled
    \/ G_SetExtraHeaders
    \/ G_CreateSession
    \/ G_EmulateNetwork
    \/ G_SetCpuRate

ConfigSpec == ConfigInit /\ [][ConfigNext]_vars

(***************************************************************************)
(* Two invocations of the handler at once, each with one run.  Every       *)
(* variable of the handler is a function of the invocation; browserState   *)
(* and pages are functions of the browser, named after the invocation that *)
(* launched it; browserVar[v] is the browser that variable v refers to.    *)
(***************************************************************************)
Invocations == {1, 2}
NoBrowser == 0

\* Variant: `browser` is a variable of the module, the same for every
\* invocation.
VarOf_ModuleLevel(n) == 1

\* The variable `browser` of invocation n: declared by `let` inside the
\* handler, one per invocation.
VarOf(n) == n

ConcurrentInit ==
    /\ req = [AnyRequest EXCEPT !.runs = 1]
    /\ hpc = [n \in Invocations |-> "start"]
    /\ ppc = [n \in Invocations |-> "idle"]
    /\ i = [n \in Invocations |-> 0]
    /\ browserVar = [n \in Invocations |-> NoBrowser]
    /\ browserState = [n \in Invocations |-> "none"]
    /\ race = [n \in Invocations |-> "none"]
    /\ gtimer = [n \in Invocations |-> "unset"]
    /\ pages = [n \in Invocations |-> <<>>]
    /\ reqs = <<>>
    /\ fcp = NoFcp
    /\ fcpTimer = "unset"
    /\ inpage = NoInpage
    /\ allMetrics = [n \in Invocations |-> <<>>]
    /\ rout = [n \in Invocations |-> NoBrowser]
    /\ perr = [n \in Invocations |-> "none"]
    /\ responses = [n \in Invocations |-> <<>>]
    /\ atResponse = <<>>

concurrentConst == <<req, reqs, fcp, fcpTimer, inpage, atResponse>>

\* The handler of invocation n after its race has settled: the response,
\* then the finally block, which closes the browser its variable refers to.
K_AfterRace(n, body) ==
    LET b == browserVar[VarOf(n)] IN
    /\ responses' = [responses EXCEPT ![n] = Append(@, body)]
    /\ hpc' = [hpc EXCEPT ![n] = "done"]
    /\ IF b # NoBrowser
       THEN /\ browserState' = [browserState EXCEPT ![b] = "closed"]
            /\ pages' = [pages EXCEPT ![b] = [k \in 1..Len(@) |-> [@[k] EXCEPT !.state = "closed"]]]
       ELSE UNCHANGED <<browserState, pages>>

\* The pipeline of invocation n throws.
K_Throws(n, e) ==
    /\ ppc' = [ppc EXCEPT ![n] = "failed"]
    /\ perr' = [perr EXCEPT ![n] = e]
    /\ IF race[n] = "pending"
       THEN race' = [race EXCEPT ![n] = "rejected"] /\ K_AfterRace(n, TestFailed)
       ELSE UNCHANGED <<race, hpc, responses, browserState, pages>>

K_Start(n) ==
    /\ hpc[n] = "start"
    /\ hpc' = [hpc EXCEPT ![n] = "race"]
    /\ race' = [race EXCEPT ![n] = "pending"]
    /\ ppc' = [ppc EXCEPT ![n] = "launch"]
    /\ gtimer' = [gtimer EXCEPT ![n] = "armed"]
    /\ UNCHANGED <<i, browserVar, browserState, pages, allMetrics, rout, perr, responses>>
    /\ UNCHANGED concurrentConst

\* puppeteer.launch of invocation n settles: a new browser, assigned to the
\* variable of the invocation.
K_Launch(n) ==
    /\ ppc[n] = "launch"
    /\ \E ok \in BOOLEAN :
         IF ok
         THEN /\ browserState' = [browserState EXCEPT ![n] = "open"]
              /\ browserVar' = [browserVar EXCEPT ![VarOf(n)] = n]
              /\ ppc' = [ppc EXCEPT ![n] = "newPage"]
              /\ UNCHANGED <<hpc, race, pages, perr, responses>>
         ELSE /\ browserState[n] = "none"
              /\ K_Throws(n, "Error")
              /\ UNCHANGED browserVar
    /\ UNCHANGED <<i, gtimer, allMetrics, rout>>
    /\ UNCHANGED concurrentConst

\* runSingleTest(browser, ...) of invocation n: browser.newPage() settles.
\* rout[n] is the browser the page belongs to.
K_NewPage(n) ==
    /\ ppc[n] = "newPage"
    /\ LET b == browserVar[VarOf(n)] IN
         IF b # NoBrowser /\ browserState[b] = "open"
         THEN /\ pages' = [pages EXCEPT ![b] = OpenPage(@, "run")]
              /\ rout' = [rout EXCEPT ![n] = b]
              /\ ppc' = [ppc EXCEPT ![n] = "run"]
              /\ UNCHANGED <<hpc, race, browserState, perr, responses>>
         ELSE /\ K_Throws(n, "Error") /\ pages' = pages
              /\ UNCHANGED rout
    /\ UNCHANGED <<i, browserVar, gtimer, allMetrics>>
    /\ UNCHANGED concurrentConst

\* The run of invocation n ends: its page is closed; the sample is pushed,
\* or the exception leaves the pipeline.
K_RunEnds(n) ==
    /\ ppc[n] = "run"
    /\ LET b == rout[n]
           ps == [pages EXCEPT ![b] = ClosePage(@, Len(@))]
       IN  \E out \in {"return", "TimeoutError", "Error"}, v \in FcpValues \cup {Null} :
             IF out = "return" /\ browserState[b] = "open"
             THEN /\ pages' = ps
                  /\ allMetrics' = [allMetrics EXCEPT ![n] = Append(@, [FCP |-> v, LCP |-> Null])]
                  /\ i' = [i EXCEPT ![n] = @ + 1]
                  /\ ppc' = [ppc EXCEPT ![n] = "shot"]
                  /\ UNCHANGED <<hpc, race, browserState, perr, responses>>
             ELSE /\ v = Null
                  /\ ppc' = [ppc EXCEPT ![n] = "failed"]
                  /\ perr' = [perr EXCEPT ![n] = IF out = "return" THEN "Error" ELSE out]
                  /\ UNCHANGED <<allMetrics, i>>
                  /\ IF race[n] = "pending"
                     THEN /\ race' = [race EXCEPT ![n] = "rejected"]
                          /\ responses' = [responses EXCEPT ![n] = Append(@, TestFailed)]
                          /\ hpc' = [hpc EXCEPT ![n] = "done"]
                          /\ LET c == browserVar[VarOf(n)] IN
                               IF c # NoBrowser
                               THEN /\ browserState' = [browserState EXCEPT ![c] = "closed"]
                                    /\ pages' = [ps EXCEPT ![c] = [k \in 1..Len(@) |-> [@[k] EXCEPT !.state = "closed"]]]
                               ELSE pages' = ps /\ UNCHANGED browserState
                     ELSE pages' = ps /\ UNCHANGED <<race, hpc, responses, browserState>>
    /\ UNCHANGED <<browserVar, gtimer, rout>>
    /\ UNCHANGED concurrentConst

\* The medians and the screenshot of invocation n; the result is returned.
K_Finish(n) ==
    /\ ppc[n] = "shot"
    /\ LET b == browserVar[VarOf(n)] IN
         \E ok \in BOOLEAN :
           IF ok /\ b # NoBrowser /\ browserState[b] = "open"
           THEN /\ ppc' = [ppc EXCEPT ![n] = "done"]
                /\ perr' = perr
                /\ IF race[n] = "pending"
                   THEN race' = [race EXCEPT ![n] = "fulfilled"] /\ K_AfterRace(n, Result(allMetrics[n]))
                   ELSE UNCHANGED <<race, hpc, responses, browserState, pages>>
           ELSE K_Throws(n, "Error")
    /\ UNCHANGED <<i, browserVar, gtimer, allMetrics, rout>>
    /\ UNCHANGED concurrentConst

\* The global deadline timer of invocation n fires.
K_GlobalTimeout(n) ==
    /\ gtimer[n] = "armed"
    /\ gtimer' = [gtimer EXCEPT ![n] = "fired"]
    /\ IF race[n] = "pending"
       THEN race' = [race EXCEPT ![n] = "rejected"] /\ K_AfterRace(n, TestFailed)
       ELSE UNCHANGED <<race, hpc, responses, browserState, pages>>
    /\ UNCHANGED <<ppc, i, browserVar, allMetrics, rout, perr>>
    /\ UNCHANGED concurrentConst

\* A step of invocation n.
K_Step(n) ==
    \/ K_Start(n)
    \/ K_Launch(n)
    \/ K_NewPage(n)
    \/ K_RunEnds(n)
    \/ K_Finish(n)
    \/ K_GlobalTimeout(n)

ConcurrentNext == \E n \in Invocations : K_Step(n)

ConcurrentSpec == ConcurrentInit /\ [][ConcurrentNext]_vars

(***************************************************************************)
(* The legacy handler (server.js, unnamed/part_001): the page set-up of    *)
(* runSingleTest from the FCP promise to page.goto, and its interceptor    *)
(***************************************************************************)
\* A page of the legacy runSingleTest after the throttling was applied.
\* exposing: the promise of page.exposeFunction (none, pending, fulfilled,
\* rejected), which the code keeps no reference to.
LegacyPageRec ==
    [kind |-> "run", state |-> "open", fcpListener |-> FALSE, exposed |-> FALSE,
     observers |-> FALSE, interception |-> FALSE, handler |-> FALSE,
     throttled |-> TRUE, exposing |-> "none"]

\* An intercepted request of the legacy handler; source is the url that
\* axios.get was called with.
LegacyRequest(u, t, nav, main) ==
    [page |-> 1, url |-> u, type |-> t, nav |-> nav, main |-> main,
     pc |-> "delivered", res |-> <<>>, fetches |-> 0, fetched |-> "none", source |-> <<>>]

\* The argument of axios.get in the legacy interceptor: the url of the test,
\* whichever request is being handled.
LegacyFetchedUrl(testUrl, requestUrl) == testUrl

\* The legacy handler up to its first await.  It has no outer try/catch: the
\* TypeError of rules.block on an omitted rules object rejects the handler's
\* promise and the request stays unresolved.
LegacyHandleRequest(testUrl, rules, r) ==
    IF ~rules.defined
    THEN [r EXCEPT !.pc = "rejected"]
    ELSE IF rules.hasBlock /\ SomeFragmentIn(rules.block, r.url)
    THEN [r EXCEPT !.pc = "done", !.res = Append(@, Resolution("abort", "failed", "block"))]
    ELSE IF r.type = "document" /\ r.nav
    THEN [r EXCEPT !.pc = "fetching", !.fetches = @ + 1,
                   !.source = LegacyFetchedUrl(testUrl, r.url)]
    ELSE [r EXCEPT !.pc = "done", !.res = Append(@, Resolution("continue", "", "default"))]

\* The legacy handler after axios.get has settled: the rewritten body of the
\* fetched resource is served with status 200 and text/html; a rejected
\* axios.get (a non-2xx status included) or an exception of the rewrite is
\* answered with abort('failed').
LegacyAfterFetch(rules, r, ok) ==
    LET f == [r EXCEPT !.pc = "done", !.fetched = IF ok THEN "okHtml" ELSE "fetchFail"] IN
    IF ok /\ (rules.find = <<>> \/ RegExpCompiles(rules.find))
    THEN [f EXCEPT !.res = Append(@, Resolution("respond", r.source, "rewrite"))]
    ELSE [f EXCEPT !.res = Append(@, Resolution("abort", "failed", "innerCatch"))]

\* rules: {} (an object without block, defer and html_replace).
RulesEmpty == [defined |-> TRUE, hasBlock |-> FALSE, block |-> <<>>, find |-> <<>>]
LegacyRuleSets == RuleSets \cup {RulesEmpty}

\* runSingleTest of the legacy handler after the throttling was applied.
LegacyInit ==
    /\ req \in [dryRun : {FALSE}, url : {TestUrl}, rules : LegacyRuleSets, runs : {1}]
    /\ hpc = "race"
    /\ ppc = "fcpSetup"
    /\ i = 0
    /\ browserVar = TRUE
    /\ browserState = "open"
    /\ race = "pending"
    /\ gtimer = "armed"
    /\ pages = <<LegacyPageRec>>
    /\ reqs = <<>>
    /\ fcp = NoFcp
    /\ fcpTimer = "unset"
    /\ inpage = NoInpage
    /\ allMetrics = <<>>
    /\ rout = NoRun
    /\ perr = "none"
    /\ responses = <<>>
    /\ atResponse = <<>>

legacyConst == <<req, hpc, i, browserVar, browserState, race, gtimer, allMetrics,
                 rout, perr, responses, atResponse>>

\* The constructor of fcpPromise calls page.exposeFunction('__reportFcp')
\* and drops its promise; injectPerformanceObservers is called, which
\* awaits page.evaluateOnNewDocument.
Y_FcpSetup ==
    /\ ppc = "fcpSetup"
    /\ pages' = [pages EXCEPT ![1].exposing = "pending"]
    /\ ppc' = "observers"
    /\ UNCHANGED <<legacyConst, reqs, fcp, fcpTimer, inpage>>

\* page.exposeFunction settles: the binding is in the page, or the call has
\* failed; nothing in runSingleTest waits for it.
Y_ExposeSettles ==
    /\ pages[1].exposing = "pending"
    /\ \E ok \in BOOLEAN :
         pages' = [pages EXCEPT ![1].exposing = IF ok THEN "fulfilled" ELSE "rejected",
                                ![1].exposed = ok]
    /\ UNCHANGED <<legacyConst, ppc, reqs, fcp, fcpTimer, inpage>>

\* page.evaluateOnNewDocument settles; page.setRequestInterception(true) is
\* called.
Y_Observers ==
    /\ ppc = "observers"
    /\ \E ok \in BOOLEAN :
         IF ok
         THEN pages' = [pages EXCEPT ![1].observers = TRUE] /\ ppc' = "intercept"
         ELSE pages' = pages /\ ppc' = "closePage"
    /\ UNCHANGED <<legacyConst, reqs, fcp, fcpTimer, inpage>>

\* page.setRequestInterception(true) settles; setupRequestInterceptor
\* registers the handler, the FCP race is armed and page.goto is called.
Y_Intercept ==
    /\ ppc = "intercept"
    /\ \E ok \in BOOLEAN :
         IF ok
         THEN /\ pages' = [pages EXCEPT ![1].interception = TRUE, ![1].handler = TRUE]
              /\ fcp' = [state |-> "pending", value |-> Null]
              /\ fcpTimer' = "armed"
              /\ ppc' = "goto"
         ELSE /\ ppc' = "closePage"
              /\ UNCHANGED <<pages, fcp, fcpTimer>>
    /\ UNCHANGED <<legacyConst, reqs, inpage>>

\* The 'request' event of the navigation document of page.goto(url).
Y_DeliverMain ==
    /\ ppc = "goto"
    /\ MainReq(1) = {}
    /\ reqs' = Append(reqs, LegacyHandleRequest(req.url, req.rules,
                                                LegacyRequest(req.url, "document", TRUE, TRUE)))
    /\ UNCHANGED <<legacyConst, ppc, pages, fcp, fcpTimer, inpage>>

\* The 'request' event of a subresource or sub-frame of the served document.
Y_DeliverSub ==
    /\ ppc = "goto"
    /\ Delivered(1)
    /\ Cardinality(SubReqs(1)) < MaxSubrequests
    /\ \E s \in SubRequests :
         reqs' = Append(reqs, LegacyHandleRequest(req.url, req.rules,
                                                  LegacyRequest(s[1], s[2], s[2] = "document", FALSE)))
    /\ UNCHANGED <<legacyConst, ppc, pages, fcp, fcpTimer, inpage>>

\* axios.get of request k settles; the handler runs to its end.
Y_FetchDone ==
    /\ \E k \in 1..Len(reqs) :
         /\ reqs[k].pc = "fetching"
         /\ \E ok \in BOOLEAN :
              reqs' = [reqs EXCEPT ![k] = LegacyAfterFetch(req.rules, @, ok)]
    /\ UNCHANGED <<legacyConst, ppc, pages, fcp, fcpTimer, inpage>>

\* The in-page FCP observer sees first-contentful-paint: the guard flag is
\* set and window.__reportFcp is called, which resolves fcpPromise if the
\* binding is in the page and is a TypeError in the page if it is not.
Y_ReportFcp ==
    /\ ppc = "goto"
    /\ Delivered(1)
    /\ pages[1].observers
    /\ ~inpage.fcpReported
    /\ inpage' = [inpage EXCEPT !.fcpReported = TRUE]
    /\ \E v \in FcpValues :
         IF pages[1].exposed /\ fcp.state = "pending"
         THEN fcp' = [state |-> "settled", value |-> v]
         ELSE fcp' = fcp
    /\ UNCHANGED <<legacyConst, ppc, pages, reqs, fcpTimer>>

\* page.goto settles: at the load event, or with an error.
Y_GotoEnds ==
    /\ ppc = "goto"
    /\ \/ Delivered(1) /\ AllResolved(1) /\ ppc' = "settle"
       \/ ppc' = "closePage"
    /\ UNCHANGED <<legacyConst, pages, reqs, fcp, fcpTimer, inpage>>

LegacyNext ==
    \/ Y_FcpSetup
    \/ Y_ExposeSettles
    \/ Y_Observers
    \/ Y_Intercept
    \/ Y_DeliverMain
    \/ Y_DeliverSub
    \/ Y_FetchDone
    \/ Y_ReportFcp
    \/ Y_GotoEnds

LegacySpec == LegacyInit /\ [][LegacyNext]_vars

(***************************************************************************)
(* The FCP race of one run alone (runSingleTest, lines 127-160): the page  *)
(* may load several documents, each with its own observer and guard flag   *)
(***************************************************************************)
\* The values the documents of the page may report.
FcpDeliveries == {120, 300}

\* Variant: every call of resolve sets the value again.
ResolveOnce_Overwrites(f, v) == [state |-> "settled", value |-> v]

\* resolve(v) of a promise: only the first call settles it.
ResolveOnce(f, v) == IF f.state = "pending" THEN [state |-> "settled", value |-> v] ELSE f

\* A run at the call of page.goto, everything installed on its page and the
\* FCP race armed.  i counts the documents the page has loaded; atResponse
\* is the history of the values __reportFcp was called with (the [SERVER]
\* log lines).
FcpInit ==
    /\ req = AnyRequest
    /\ hpc = "race"
    /\ ppc = "goto"
    /\ i = 1
    /\ browserVar = TRUE
    /\ browserState = "open"
    /\ race = "pending"
    /\ gtimer = "armed"
    /\ pages = <<[NewPageRec("run") EXCEPT !.fcpListener = TRUE, !.exposed = TRUE,
                                            !.observers = TRUE, !.throttled = TRUE,
                                            !.interception = TRUE, !.handler = TRUE]>>
    /\ reqs = <<>>
    /\ fcp = [state |-> "pending", value |-> Null]
    /\ fcpTimer = "armed"
    /\ inpage = NoInpage
    /\ allMetrics = <<>>
    /\ rout = NoRun
    /\ perr = "none"
    /\ responses = <<>>
    /\ atResponse = <<>>

fcpConst == <<req, hpc, browserVar, browserState, race, gtimer, reqs, allMetrics,
              perr, responses>>

\* The FCP observer of the current document sees first-contentful-paint: it
\* sets the document's guard flag and calls __reportFcp(v), which emits
\* 'fcp-reported' on the page.  The `once` listener, if it is still there,
\* is removed and calls resolve(v); the continuation of fcpPromise clears
\* the 30 s timer.
F_Report ==
    /\ ppc \in {"goto", "settle", "fcp"}
    /\ ~inpage.fcpReported
    /\ \E v \in FcpDeliveries :
         /\ inpage' = [inpage EXCEPT !.fcpReported = TRUE]
         /\ atResponse' = Append(atResponse, v)
         /\ pages' = [pages EXCEPT ![1].fcpListener = FALSE]
         /\ IF pages[1].fcpListener
            THEN /\ fcp' = ResolveOnce(fcp, v)
                 /\ fcpTimer' = IF fcpTimer = "armed" THEN "cleared" ELSE fcpTimer
            ELSE UNCHANGED <<fcp, fcpTimer>>
    /\ UNCHANGED <<fcpConst, ppc, i, rout>>

\* The page loads another document (a reload or a client-side redirect):
\* the scripts of evaluateOnNewDocument run again, in a window whose guard
\* flag is unset.
F_NewDocument ==
    /\ ppc \in {"goto", "settle", "fcp"}
    /\ i < MaxDocuments
    /\ i' = i + 1
    /\ inpage' = NoInpage
    /\ UNCHANGED <<fcpConst, ppc, pages, fcp, fcpTimer, rout, atResponse>>

\* page.goto resolves at the load event.
F_Load ==
    /\ ppc = "goto"
    /\ ppc' = "settle"
    /\ UNCHANGED <<fcpConst, i, pages, fcp, fcpTimer, inpage, rout, atResponse>>

FcpNext ==
    \/ F_Report
    \/ F_NewDocument
    \/ F_Load
    \/ T_FcpTimeout
    \/ R_Settle
    \/ R_CollectFcp
    \/ R_CollectLcp

FcpSpec == FcpInit /\ [][FcpNext]_vars

(***************************************************************************)
(* The page's run-test button (public/main.js, lines 245-343)              *)
(***************************************************************************)
\* The page as loaded: the button enabled, no status, an empty history.
\* html is the content of the metrics container, display its visibility.
FreshUi ==
    [disabled |-> FALSE, status |-> "", display |-> "none", html |-> "", history |-> <<>>]

\* Variant: the button is left enabled while the request is in flight.
ResetUi_LeavesEnabled(ui) ==
    [ui EXCEPT !.status = "testing", !.display = "none", !.html = ""]

\* "Reset UI": the button is disabled, the status names the test and the
\* metrics container is hidden and emptied.
ResetUi(ui) ==
    [ui EXCEPT !.disabled = TRUE, !.status = "testing", !.display = "none", !.html = ""]

\* The outcomes of fetch('/test'): a network error; an error response,
\* whose body is JSON or not; a success response with one sample, whose FCP
\* and LCP may be null.  saveOk: localStorage.setItem does not throw.
UiOutcomes ==
    [kind : {"network"}, json : {FALSE}, runs : {<<>>}, saveOk : {TRUE}]
    \cup [kind : {"error"}, json : BOOLEAN, runs : {<<>>}, saveOk : {TRUE}]
    \cup [kind : {"ok"}, json : {TRUE},
          runs : {<<s>> : s \in [FCP : {Null} \cup FcpValues, LCP : {Null} \cup LcpValues]},
          saveOk : BOOLEAN]

\* run.FCP.toFixed(0) and run.LCP.toFixed(0) of the runs details: a
\* TypeError when a metric is null.
RunsDetailsThrows(runs) ==
    \E k \in 1..Len(runs) : runs[k].FCP = Null \/ runs[k].LCP = Null

\* The catch block of the click handler.
UiCatch(ui) == [ui EXCEPT !.status = "failed"]

\* The try block after a success response was parsed: the result is put at
\* the head of the history and saved, the status is set, the metrics
\* container is shown and then filled.
UiSuccess(ui, o) ==
    LET stored == [ui EXCEPT !.history = <<Result(o.runs)>> \o @] IN
    IF ~o.saveOk THEN UiCatch(stored)
    ELSE LET shown == [stored EXCEPT !.status = "complete", !.display = "block"] IN
         IF RunsDetailsThrows(o.runs) THEN UiCatch(shown)
         ELSE [shown EXCEPT !.html = "metrics"]

\* The click handler from the settling of fetch to its end: try, catch and
\* the finally block, which enables the button again.
HandleOutcome(ui, o) ==
    LET after == IF o.kind = "ok" THEN UiSuccess(ui, o) ELSE UiCatch(ui)
    IN  [after EXCEPT !.disabled = FALSE]

\* The loaded page.  inpage is the page of the tester itself; i counts the
\* clicks, reqs holds the requests to /test in flight, atResponse the
\* history of the handled outcomes.
UiInit ==
    /\ req \in [dryRun : {FALSE}, url : {NoUrl, TestUrl}, rules : {RulesEmpty}, runs : {1}]
    /\ hpc = "start"
    /\ ppc = "idle"
    /\ i = 0
    /\ browserVar = FALSE
    /\ browserState = "none"
    /\ race = "none"
    /\ gtimer = "unset"
    /\ pages = <<>>
    /\ reqs = <<>>
    /\ fcp = NoFcp
    /\ fcpTimer = "unset"
    /\ inpage = FreshUi
    /\ allMetrics = <<>>
    /\ rout = NoRun
    /\ perr = "none"
    /\ responses = <<>>
    /\ atResponse = <<>>

uiConst == <<req, hpc, ppc, browserVar, browserState, race, gtimer, pages, fcp,
             fcpTimer, allMetrics, rout, perr, responses>>

\* A click on the button, which a disabled button does not deliver: an
\* invalid url is answered with an alert; otherwise the UI is reset and the
\* request is sent.
U_Click ==
    /\ ~inpage.disabled
    /\ i < MaxClicks
    /\ i' = i + 1
    /\ IF req.url = NoUrl
       THEN UNCHANGED <<inpage, reqs>>
       ELSE /\ inpage' = ResetUi(inpage)
            /\ reqs' = Append(reqs, i + 1)
    /\ UNCHANGED <<uiConst, atResponse>>

\* The fetch of a request in flight settles and its handler runs to the
\* end (response.json() is awaited in between, without an effect on the
\* page).
U_Outcome ==
    /\ \E k \in 1..Len(reqs) : \E o \in UiOutcomes :
         LET ui == HandleOutcome(inpage, o) IN
         /\ inpage' = ui
         /\ reqs' = SubSeq(reqs, 1, k - 1) \o SubSeq(reqs, k + 1, Len(reqs))
         /\ atResponse' = Append(atResponse,
                [ok |-> o.kind = "ok", saved |-> o.saveOk, runs |-> o.runs, status |-> ui.status,
                 metrics |-> ui.display = "block" /\ ui.html = "metrics",
                 stored |-> Len(ui.history) > Len(inpage.history)])
    /\ UNCHANGED <<uiConst, i>>

\* The clear-history button, confirmed.
U_ClearHistory ==
    /\ inpage.history # <<>>
    /\ inpage' = [inpage EXCEPT !.history = <<>>]
    /\ UNCHANGED <<uiConst, i, reqs, atResponse>>

UiNext == U_Click \/ U_Outcome \/ U_ClearHistory

UiSpec == UiInit /\ [][UiNext]_vars

(***************************************************************************)
(* Properties                                                              *)
(***************************************************************************)
IsSuccess(k) == responses[k].status = 200 /\ ~req.dryRun

\* C1: every browser that puppeteer.launch returned is closed once the
\* invocation is over (the handler has returned and the pipeline has
\* settled), on every exit path, also when the global deadline fired while
\* the launch was in progress.
C1_LaunchedBrowserClosed ==
    (hpc = "done" /\ ppc \in {"done", "failed"}) => browserState \in {"none", "closed"}

\* C2: when an invocation fails by the navigation timeout of a run or by
\* the global deadline, the browser and every page are closed at the moment
\* the 500 response is sent.
C2_ReleasedBeforeErrorResponse ==
    \A k \in 1..Len(atResponse) :
        (\/ atResponse[k].cause = "GlobalTimeout"
         \/ atResponse[k].cause = "TimeoutError" /\ atResponse[k].at = "closePage")
        => /\ responses[k].status = 500
           /\ atResponse[k].browser \in {"none", "closed"}
           /\ atResponse[k].openPages = 0

\* C3: every intercepted request is resolved at most once at any time and
\* exactly once when its handler has returned, by abort, respond or
\* continue; a handler that has not returned is waiting for its fetch, which
\* can settle; a failed fetch resolves the request by abort('failed').
C3_ResolvedExactlyOnce ==
    \A k \in 1..Len(reqs) :
        /\ Len(reqs[k].res) <= 1
        /\ (reqs[k].pc = "done") <=> (Len(reqs[k].res) = 1)
        /\ reqs[k].pc # "done" => (reqs[k].pc = "fetching" /\ ENABLED I_FetchDone)
        /\ \A j \in 1..Len(reqs[k].res) : reqs[k].res[j].act \in {"abort", "respond", "continue"}
        /\ reqs[k].fetched \in {"fetchFail", "bodyFail"}
           => (reqs[k].res[1].act = "abort" /\ reqs[k].res[1].arg = "failed")

\* A request whose out-of-band fetch failed was aborted.
C3_Witness ==
    \E k \in 1..Len(reqs) :
        /\ reqs[k].fetched = "fetchFail"
        /\ reqs[k].pc = "done"
        /\ reqs[k].res[1].act = "abort"

\* C4: every success response of a non-dry-run invocation carries exactly
\* `runs` samples.
C4_SamplesEqualRuns ==
    \A k \in 1..Len(responses) :
        IsSuccess(k) => Len(responses[k].individualRuns) = req.runs

\* A success response for the largest number of runs.
C4_Witness ==
    \E k \in 1..Len(responses) :
        IsSuccess(k) /\ req.runs = MaxRuns /\ Len(responses[k].individualRuns) = MaxRuns

\* C5: no two pages of the browser are open at once.
C5_OnePageAtATime ==
    \A a, b \in 1..Len(pages) :
        (pages[a].state = "open" /\ pages[b].state = "open") => a = b

\* The screenshot page is open after two runs whose pages are closed.
C5_Witness ==
    /\ Len(pages) = 3
    /\ pages[1].state = "closed" /\ pages[2].state = "closed"
    /\ pages[2].kind = "run"
    /\ pages[3].kind = "shot" /\ pages[3].state = "open"

\* C6 as stated: a successful invocation with runs = N has created exactly
\* N pages.
C6_ExactlyRunsPages ==
    \A k \in 1..Len(responses) : IsSuccess(k) => Len(pages) = req.runs

\* C6 amended: a successful invocation with runs = N has created exactly
\* N + 1 pages: one per run and one for the final screenshot.
C6_RunsPlusScreenshotPages ==
    \A k \in 1..Len(responses) :
        IsSuccess(k) =>
            /\ Len(pages) = req.runs + 1
            /\ Cardinality({p \in 1..Len(pages) : pages[p].kind = "run"}) = req.runs
            /\ pages[Len(pages)].kind = "shot"

\* A finished successful invocation of two runs.
C6_Witness ==
    /\ req.runs = 2
    /\ hpc = "done" /\ ppc = "done" /\ race = "fulfilled"
    /\ Len(pages) = 3

\* C7: a dry run answers 200 with one sample and averageMetrics
\* {FCP: -1, LCP: -1}, whatever the url, and never launches the browser or
\* creates a page.
C7_DryRunSkipsBrowser ==
    req.dryRun =>
        /\ browserState = "none" /\ ~browserVar /\ pages = <<>>
        /\ ppc = "idle" /\ gtimer = "unset"
        /\ hpc \in {"start", "done"}
        /\ hpc = "done" =>
              /\ Len(responses) = 1
              /\ responses[1].status = 200
              /\ Len(responses[1].individualRuns) = 1
              /\ responses[1].averageMetrics = [FCP |-> -1, LCP |-> -1]

\* A dry run without url has been answered.
C7_Witness == req.dryRun /\ req.url = <<>> /\ hpc = "done" /\ Len(responses) = 1

\* C8: a request that is not a dry run and has no url is answered 400 by
\* the first step of the handler, and the browser is never launched.
C8_MissingUrlRejected ==
    (~req.dryRun /\ req.url = <<>>) =>
        /\ browserState = "none" /\ ~browserVar /\ pages = <<>>
        /\ ppc = "idle" /\ gtimer = "unset"
        /\ hpc \in {"start", "done"}
        /\ hpc = "done" => (Len(responses) = 1 /\ responses[1].status = 400)

\* A request without url has been answered 400.
C8_Witness ==
    ~req.dryRun /\ req.url = <<>> /\ hpc = "done" /\ responses[1].status = 400

\* C9: with the rules field omitted no intercepted request is aborted by
\* the evaluation of the rules.
C9_OmittedRulesAbortNothing ==
    ~req.rules.defined =>
        \A k \in 1..Len(reqs) : \A j \in 1..Len(reqs[k].res) :
            ~(reqs[k].res[j].act = "abort" /\ reqs[k].res[j].site \in {"block", "outerCatch"})

\* u contains f: u = a \o f \o b for some a and b.
Occurs(u, f) ==
    \E a \in 0..Len(u) :
        /\ a + Len(f) <= Len(u)
        /\ \A j \in 1..Len(f) : u[a + j] = f[j]
Blocked(u) ==
    req.rules.defined /\ req.rules.hasBlock
    /\ \E n \in 1..Len(req.rules.block) : Occurs(u, req.rules.block[n])

\* C10: a request whose url contains a fragment of rules.block is aborted
\* by the block rule and never fetched out of band, the navigation document
\* included; a request that is not a navigation document and whose url
\* contains no fragment (in the same case of letters) is continued.
C10_BlockedAbortedNeverFetched ==
    \A k \in 1..Len(reqs) :
        /\ Blocked(reqs[k].url)
           => /\ reqs[k].fetches = 0
              /\ reqs[k].pc = "done"
              /\ Len(reqs[k].res) = 1 /\ reqs[k].res[1].act = "abort"
        /\ (req.rules.defined /\ ~Blocked(reqs[k].url) /\ reqs[k].type # "document")
           => (Len(reqs[k].res) = 1 /\ reqs[k].res[1].act = "continue")

\* The navigation document itself was blocked.
C10_Witness ==
    \E k \in 1..Len(reqs) :
        /\ reqs[k].main /\ Blocked(reqs[k].url)
        /\ reqs[k].res # <<>> /\ reqs[k].res[1].site = "block"

\* The request of the navigation document of the current run was aborted by
\* one of the interceptor's catch blocks.
MainAbortedByCatch ==
    \E k \in 1..Len(reqs) :
        /\ reqs[k].page = Cur /\ reqs[k].main
        /\ reqs[k].res # <<>>
        /\ reqs[k].res[1].act = "abort"
        /\ reqs[k].res[1].site \in {"innerCatch", "outerCatch"}

\* C11: a rule-evaluation or rewrite-fetch failure of the navigation
\* document request, recovered by aborting that request, does not make the
\* run throw the navigation error: runSingleTest still returns a sample.
C11_InterceptionFailureKeepsRun ==
    MainAbortedByCatch =>
        ~(rout.kind = "throw" /\ rout.err = "Error" /\ browserState = "open")

MalformedFind == req.rules.find # <<>> /\ ~RegExpCompiles(req.rules.find)

\* C12: with a malformed html_replace.find either no browser is launched,
\* or the fetched HTML document is delivered (unmodified) by respond and the
\* run does not throw the navigation error.
C12_MalformedRegexNeverFailsRun ==
    MalformedFind =>
        \/ browserState = "none" /\ ~browserVar
        \/ \A k \in 1..Len(reqs) :
               (reqs[k].fetched = "okHtml") =>
                   /\ reqs[k].res[1].act = "respond"
                   /\ (reqs[k].main /\ reqs[k].page = Cur)
                      => ~(rout.kind = "throw" /\ rout.err = "Error" /\ browserState = "open")

AllNull(ms, f) == \A k \in 1..Len(ms) : ms[k][f] = Null

C13_FcpWaitSafe ==
    /\ (ppc = "fcp" /\ fcp.state = "pending") => (fcpTimer = "armed" /\ ENABLED T_FcpTimeout)
    /\ (ppc = "closePage" /\ rout.kind = "return" /\ ~inpage.fcpReported)
       => (rout.FCP = Null /\ fcpTimer = "fired")
    /\ \A k \in 1..Len(responses) :
           IsSuccess(k) =>
               /\ (responses[k].averageMetrics.FCP = Null) <=> AllNull(responses[k].individualRuns, "FCP")
               /\ Len(responses[k].individualRuns) = req.runs

\* C13: while fcpMetricPromise is awaited and pending, the 30 s timer is
\* armed; a run whose document never reported FCP returns FCP = null, by
\* the timer; in a success response the FCP median is null exactly when
\* every sample's FCP is null; and the wait for fcpMetricPromise always ends.
C13_FcpTimeoutYieldsNull ==
    /\ []C13_FcpWaitSafe
    /\ (ppc = "fcp") ~> (ppc = "lcp")

\* Two runs without an FCP report, and a success response with a null FCP
\* median.
C13_Witness ==
    /\ req.runs = 2 /\ Len(responses) = 1 /\ IsSuccess(1)
    /\ responses[1].individualRuns[1].FCP = Null
    /\ responses[1].individualRuns[2].FCP = Null
    /\ responses[1].averageMetrics.FCP = Null

C14_TimerStep ==
    (gtimer = "armed" /\ gtimer' = "fired" /\ ppc \notin {"done", "failed"})
    => /\ responses = <<>>
       /\ Len(responses') = 1
       /\ responses'[1] = TestFailed
       /\ atResponse'[1].cause = "GlobalTimeout"
       /\ atResponse'[1].log = "globalTimeout"
C14_Distinguished ==
    \A k \in 1..Len(atResponse) :
        /\ atResponse[k].cause = "GlobalTimeout"
           => (responses[k].status = 500 /\ atResponse[k].log = "globalTimeout" /\ gtimer = "fired")
        /\ atResponse[k].cause = "TimeoutError" => atResponse[k].log = "puppeteerTimeout"
        /\ atResponse[k].log = "globalTimeout" => atResponse[k].cause = "GlobalTimeout"

\* C14: when the global deadline timer fires before the pipeline has
\* settled, the invocation is answered at once with the error response,
\* caused by the 'Global test timeout' error, for which the catch block
\* takes a branch of its own, not the one of a puppeteer TimeoutError; and
\* an invocation that entered the race is always answered.
C14_GlobalTimeoutAnswers ==
    /\ [][C14_TimerStep]_vars
    /\ []C14_Distinguished
    /\ (hpc = "race") ~> (Len(responses) = 1)

\* The deadline fired during the navigation of a run.
C14_Witness ==
    /\ Len(atResponse) = 1
    /\ atResponse[1].cause = "GlobalTimeout"
    /\ atResponse[1].log = "globalTimeout"
    /\ ppc = "goto" /\ req.runs >= 1

C15_FailedRun ==
    (ppc = "failed" /\ browserVar /\ i < req.runs) =>
        /\ Len(allMetrics) = i
        /\ Cardinality({k \in 1..Len(pages) : pages[k].kind = "run"}) \in {i, i + 1}
        /\ \A k \in 1..Len(pages) : pages[k].kind # "shot"
        /\ \A k \in 1..Len(responses) : responses[k] = TestFailed
        /\ Len(responses) = 1
C15_ThrowStep ==
    (ppc = "closePage" /\ rout.kind = "throw") =>
        \/ ppc' = "closePage" /\ rout' = rout
        \/ /\ ppc' = "failed"
           /\ i' = i /\ allMetrics' = allMetrics /\ Len(pages') = Len(pages)
           /\ Len(responses') = 1 /\ responses'[1] = TestFailed

\* C15: when a run has thrown (a navigation timeout or any other exception)
\* the pipeline fails as soon as the run's page is closed: the run is not
\* started again, no further run and no screenshot page follow, no sample
\* is added, and the only response is the error response.
C15_RunFailureIsFatal ==
    /\ []C15_FailedRun
    /\ [][C15_ThrowStep]_vars

\* The first of two runs failed by the navigation timeout.
C15_Witness ==
    /\ ppc = "failed" /\ perr = "TimeoutError"
    /\ req.runs = 2 /\ i = 0
    /\ Len(pages) = 1
    /\ Len(responses) = 1 /\ atResponse[1].cause = "TimeoutError"

\* The r-th smallest of the non-null values of column col.
Present(col) == {k \in 1..Len(col) : col[k] # Null}
OrderStatistic(col, r) ==
    CHOOSE v \in {col[k] : k \in Present(col)} :
        /\ Cardinality({k \in Present(col) : col[k] < v}) < r
        /\ r <= Cardinality({k \in Present(col) : col[k] <= v})
StandardMedian(col) ==
    LET n == Cardinality(Present(col)) IN
    IF n = 0 THEN Null
    ELSE IF n % 2 = 1 THEN OrderStatistic(col, (n + 1) \div 2)
    ELSE (OrderStatistic(col, n \div 2) + OrderStatistic(col, (n \div 2) + 1)) \div 2

\* C16: averageMetrics.FCP and averageMetrics.LCP are the standard median
\* of the non-null values of their column of individualRuns: null for none,
\* the middle one for an odd count, the mean of the two middle ones for an
\* even count.
C16_MedianIsOrderStatistic ==
    \A k \in 1..Len(responses) :
        responses[k].kind = "result" =>
            /\ responses[k].averageMetrics.FCP
                 = StandardMedian([n \in 1..Len(responses[k].individualRuns) |-> responses[k].individualRuns[n].FCP])
            /\ responses[k].averageMetrics.LCP
                 = StandardMedian([n \in 1..Len(responses[k].individualRuns) |-> responses[k].individualRuns[n].LCP])

\* Unsorted samples with a null among them and an even count of values.
C16_Witness ==
    /\ Len(responses) = 1
    /\ Len(allMetrics) = 3
    /\ allMetrics[1].FCP = 100 /\ allMetrics[2].FCP = Null /\ allMetrics[3].FCP = 20
    /\ responses[1].averageMetrics.FCP = 60

RunStages == {"configure", "expose", "observers", "intercept", "goto", "settle", "fcp", "lcp", "closePage"}

\* C17: a page of runSingleTest is open only while its runSingleTest is
\* running: when runSingleTest has settled, by a sample or by an exception
\* of any step, close has been called on the page.
C17_RunPageClosedOnExit ==
    \A k \in 1..Len(pages) :
        (pages[k].kind = "run" /\ pages[k].state = "open")
        => (k = Cur /\ ppc \in RunStages)

\* A run has thrown the navigation timeout and its page was closed by the
\* finally block (the browser is not closed yet).
C17_Witness ==
    /\ ppc = "failed" /\ perr = "TimeoutError"
    /\ browserState = "closing"
    /\ pages[Cur].kind = "run" /\ pages[Cur].state = "closed"

\* C18: from the call of page.goto on, __reportFcp is exposed, the observer
\* script is installed, and the 'fcp-reported' listener is registered until
\* the report has come; no request of a page is intercepted before.
C18_InstallBeforeNavigate ==
    /\ ppc \in {"goto", "settle", "fcp", "lcp"}
       => /\ pages[Cur].kind = "run"
          /\ pages[Cur].exposed /\ pages[Cur].observers
          /\ pages[Cur].fcpListener \/ inpage.fcpReported
    /\ \A k \in 1..Len(reqs) :
           pages[reqs[k].page].exposed /\ pages[reqs[k].page].observers

\* The navigation document is requested, everything installed.
C18_Witness ==
    /\ ppc = "goto" /\ MainReq(Cur) # {}
    /\ pages[Cur].exposed /\ pages[Cur].observers /\ pages[Cur].fcpListener

C19_Step ==
    /\ (ppc' = "settle" /\ ppc # "settle") => (ppc = "goto" /\ Delivered(Cur))
    /\ (ppc' = "fcp" /\ ppc # "fcp") => ppc = "settle"
    /\ (ppc' = "lcp" /\ ppc # "lcp") => (ppc = "fcp" /\ fcp.state = "settled")
    /\ (rout'.kind = "return" /\ rout.kind # "return")
       => (ppc = "lcp" /\ rout'.LCP = getFinalLcp(inpage.lcpUpdates) /\ rout'.FCP = fcp.value)

\* C19: in a run the settle delay starts at the load event, the wait for
\* the FCP value starts when the settle delay has elapsed, the LCP log is
\* read after the FCP value is there, and the sample is made of that read.
C19_LoadSettleCollect == [][C19_Step]_vars

\* A sample with an LCP value has been returned.
C19_Witness ==
    ppc = "closePage" /\ rout.kind = "return" /\ rout.LCP # Null /\ rout.FCP # Null

\* C20: the LCP of the sample is the entry appended last to the LCP log
\* when it is pulled, and null exactly when the log is empty.
C20_LcpIsLastEntry ==
    (ppc = "closePage" /\ rout.kind = "return") =>
        /\ (rout.LCP = Null) <=> (inpage.lcpUpdates = <<>>)
        /\ inpage.lcpUpdates # <<>>
           => \E k \in 1..Len(inpage.lcpUpdates) :
                  /\ \A j \in 1..Len(inpage.lcpUpdates) : j <= k
                  /\ rout.LCP = inpage.lcpUpdates[k]

\* The last entry is neither the first nor the largest.
C20_Witness ==
    /\ ppc = "closePage"
    /\ inpage.lcpUpdates = <<80, 600, 200>>
    /\ rout.LCP = 200

ShotPages == {k \in 1..Len(pages) : pages[k].kind = "shot"}

FatalCauses == {"Error", "TimeoutError", "GlobalTimeout"}

\* C26: a response that answers a failure (of the launch, of a run, of the
\* screenshot, or the global deadline) is the 500 response with the generic
\* message and nothing else; once the race is rejected that response has
\* been sent, and a 200 response of an invocation that is not a dry run
\* answers a fulfilled race only.
C26_FatalPathsAnswerGenericError ==
    /\ \A k \in 1..Len(responses) :
           /\ atResponse[k].cause \in FatalCauses
              => /\ responses[k].status = 500
                 /\ DOMAIN responses[k] = {"status", "kind", "error"}
                 /\ responses[k].error = "Test failed. Check server logs for details."
           /\ IsSuccess(k) => (race = "fulfilled" /\ atResponse[k].cause = "result")
    /\ race = "rejected" => (Len(responses) = 1 /\ atResponse[1].cause \in FatalCauses)

\* The launch failed and was answered.
C26_Witness ==
    /\ Len(responses) = 1 /\ responses[1].status = 500
    /\ atResponse[1].cause = "Error" /\ atResponse[1].at = "launch"
    /\ ~browserVar

C27_PushStep ==
    allMetrics' # allMetrics =>
        /\ ppc = "closePage" /\ rout.kind = "return"
        /\ allMetrics' = Append(allMetrics, [FCP |-> rout.FCP, LCP |-> rout.LCP])

\* C27: the samples only ever grow by the sample of the run that has just
\* returned, appended at the end, and individualRuns of a success response
\* is that sequence, entry by entry, null values included.
C27_IndividualRunsInRunOrder ==
    /\ [][C27_PushStep]_vars
    /\ [](\A k \in 1..Len(responses) :
              IsSuccess(k) =>
                  /\ Len(responses[k].individualRuns) = Len(allMetrics)
                  /\ \A n \in 1..Len(allMetrics) : responses[k].individualRuns[n] = allMetrics[n])

\* Two different samples, the larger FCP first, the null one second.
C27_Witness ==
    /\ Len(responses) = 1 /\ IsSuccess(1)
    /\ Len(responses[1].individualRuns) = 2
    /\ responses[1].individualRuns[1].FCP = 120
    /\ responses[1].individualRuns[2].FCP = Null

\* C29: from the call of page.goto on, interception is enabled on the run's
\* page and the handler is registered, and every intercepted request of the
\* page has been through the handler: it is resolved or waits for its fetch.
C29_InterceptorBeforeNavigate ==
    /\ ppc \in {"goto", "settle", "fcp", "lcp"}
       => (pages[Cur].interception /\ pages[Cur].handler)
    /\ \A k \in 1..Len(reqs) :
           /\ pages[reqs[k].page].kind = "run"
           /\ pages[reqs[k].page].interception /\ pages[reqs[k].page].handler
           /\ reqs[k].pc \in {"fetching", "done"}
           /\ reqs[k].pc = "done" => Len(reqs[k].res) = 1

\* The navigation document and a subrequest were both handled.
C29_Witness ==
    /\ ppc = "goto"
    /\ \E a, b \in 1..Len(reqs) :
           /\ reqs[a].main /\ reqs[a].res # <<>> /\ reqs[a].res[1].act = "respond"
           /\ ~reqs[b].main /\ reqs[b].res # <<>>

\* The navigation document requests that were answered with a fetched
\* response.
Answered == {k \in 1..Len(reqs) : reqs[k].main /\ reqs[k].pc = "done"}

\* C21: a navigation document whose fetched response is not OK or not HTML
\* is resolved by respond with the fetched status, headers and body, the
\* body element for element as fetched.
C21_NonHtmlPassedThrough ==
    \A k \in Answered :
        (~(reqs[k].fetched.status \in 200..299) \/ reqs[k].fetched.contentType # "text/html") =>
            /\ Len(reqs[k].res) = 1
            /\ reqs[k].res[1].act = "respond"
            /\ reqs[k].res[1].arg.status = reqs[k].fetched.status
            /\ reqs[k].res[1].arg.contentType = reqs[k].fetched.contentType
            /\ reqs[k].res[1].arg.body = reqs[k].fetched.body

\* A 404 HTML page with a script the defer rule names is served as fetched.
C21_Witness ==
    \E k \in Answered :
        /\ reqs[k].fetched.status = 404 /\ reqs[k].fetched.contentType = "text/html"
        /\ req.rules.defer = << <<"a">> >> /\ req.rules.find = <<"async">>
        /\ reqs[k].fetched.body = <<ScriptTag(<<"a">>, "double", <<"async">>)>>
        /\ reqs[k].res[1].arg.body = reqs[k].fetched.body

\* The number of defer fragments whose pattern matches the tag.
DeferHits(e, fragments) ==
    Cardinality({n \in 1..Len(fragments) :
                    e.t = "script" /\ e.quote = "double" /\ RegexIncludes(e.src, fragments[n])})

\* C22: in the body served for an OK HTML document every piece is the
\* fetched piece with, first, one defer per matching defer fragment added
\* at the end of the tag and, then, html_replace applied to the result, the
\* added defer included; status and headers are the fetched ones; a request
\* that is not a navigation document is never fetched or answered by
\* respond.
C22_DeferThenReplace ==
    /\ \A k \in Answered :
           (reqs[k].fetched.status \in 200..299 /\ reqs[k].fetched.contentType = "text/html") =>
               LET in == reqs[k].fetched.body
                   out == reqs[k].res[1].arg.body
                   word(w) == IF req.rules.find = <<w>> THEN req.rules.replace ELSE w
               IN  /\ reqs[k].res[1].act = "respond"
                   /\ reqs[k].res[1].arg.status = reqs[k].fetched.status
                   /\ reqs[k].res[1].arg.contentType = reqs[k].fetched.contentType
                   /\ Len(out) = Len(in)
                   /\ \A n \in 1..Len(in) :
                          IF in[n].t = "text"
                          THEN out[n] = Text(word(in[n].w))
                          ELSE /\ out[n].t = "script"
                               /\ out[n].src = in[n].src /\ out[n].quote = in[n].quote
                               /\ Len(out[n].attrs) = Len(in[n].attrs) + DeferHits(in[n], req.rules.defer)
                               /\ \A a \in 1..Len(out[n].attrs) :
                                      out[n].attrs[a] = word(IF a <= Len(in[n].attrs)
                                                             THEN in[n].attrs[a] ELSE "defer")
    /\ \A k \in 1..Len(reqs) :
           ~(reqs[k].type = "document" /\ reqs[k].nav)
           => (reqs[k].fetches = 0 /\ reqs[k].pc = "done" /\ reqs[k].res[1].act # "respond")

\* The defer that the defer rule added was rewritten by html_replace.
C22_Witness ==
    \E k \in Answered :
        /\ req.rules.defer = << <<"a">> >>
        /\ req.rules.find = <<"defer">> /\ req.rules.replace = "async"
        /\ reqs[k].fetched.status = 200 /\ reqs[k].fetched.contentType = "text/html"
        /\ reqs[k].fetched.body = <<ScriptTag(<<"a">>, "double", <<"async">>)>>
        /\ reqs[k].res[1].arg.body = <<ScriptTag(<<"a">>, "double", <<"async", "async">>)>>

\* v contains f as a substring, letter case ignored.
ContainsFragment(v, f) ==
    \E k \in 0..(Len(v) - Len(f)) : \A j \in 1..Len(f) : Lower(v[k + j]) = Lower(f[j])

\* C23: with one defer fragment and no html_replace, a script tag of an OK
\* HTML document with a double-quoted src gets one defer at the end of its
\* attributes if its src contains the fragment as a substring, and is
\* served unchanged if it does not.
C23_DeferOnlySubstringMatches ==
    \A k \in Answered :
        (/\ reqs[k].fetched.status \in 200..299 /\ reqs[k].fetched.contentType = "text/html"
         /\ Len(req.rules.defer) = 1 /\ req.rules.find = <<>>) =>
            LET in == reqs[k].fetched.body
                out == reqs[k].res[1].arg.body
            IN  \A n \in 1..Len(in) :
                    (in[n].t = "script" /\ in[n].quote = "double") =>
                        IF ContainsFragment(in[n].src, req.rules.defer[1])
                        THEN out[n] = [in[n] EXCEPT !.attrs = Append(@, "defer")]
                        ELSE out[n] = in[n]

\* C28: when the configuration of a run's page is complete, one network
\* emulation and one CPU rate have been applied, those of the mode, and the
\* viewport is the mode's; before that, at most one of each.
C28_ThrottlingByMode ==
    /\ Len(inpage.network) <= 1 /\ Len(inpage.cpu) <= 1
    /\ ppc = "expose" =>
         /\ req.mode = "pagespeed-mobile"
            => (inpage.network = <<150>> /\ inpage.cpu = <<4>> /\ inpage.viewport = <<412, 823>>)
         /\ req.mode = "pagespeed-desktop"
            => (inpage.network = <<40>> /\ inpage.cpu = <<1>> /\ inpage.viewport = <<1350, 940>>)
         /\ req.mode \notin {"pagespeed-mobile", "pagespeed-desktop"}
            => (inpage.network = <<40>> /\ inpage.cpu = <<4>> /\ inpage.viewport = <<1280, 800>>)

\* A page configured for a mode that is none of the three.
C28_Witness ==
    /\ ppc = "expose" /\ req.mode = "lighthouse"
    /\ inpage.network = <<40>> /\ inpage.cpu = <<4>>

\* The handler of request k has caught an exception.
Caught(k) ==
    reqs[k].res # <<>> /\ reqs[k].res[1].site \in {"innerCatch", "outerCatch"}

\* C30: a handler has returned or waits for its fetch, whatever happened in
\* the others; a request whose handler caught an exception is resolved
\* once, by abort; and every other request is resolved as the rules say for
\* that request alone: abort for a blocked url, continue for a request that
\* is not a navigation document, a fetch and then respond for a document.
C30_ExceptionStaysInItsHandler ==
    \A k \in 1..Len(reqs) :
        /\ reqs[k].pc \in {"fetching", "done"}
        /\ reqs[k].pc = "done" => Len(reqs[k].res) = 1
        /\ Caught(k) => (reqs[k].pc = "done" /\ reqs[k].res[1].act = "abort")
        /\ (reqs[k].pc = "done" /\ ~Caught(k)) =>
               IF Blocked(reqs[k].url) THEN reqs[k].res[1].site = "block"
               ELSE IF reqs[k].type = "document" /\ reqs[k].nav
               THEN reqs[k].fetches = 1 /\ reqs[k].res[1].act = "respond"
               ELSE reqs[k].res[1].act = "continue"
        /\ reqs[k].pc = "fetching" => (reqs[k].res = <<>> /\ ENABLED I_FetchDone)

\* The handler of a sub-frame caught the failure of its fetch after a later
\* request had been continued, and the request after it was continued too.
C30_Witness ==
    /\ Len(reqs) = 3
    /\ reqs[2].fetched = "fetchFail" /\ reqs[2].res # <<>> /\ reqs[2].res[1].site = "innerCatch"
    /\ reqs[3].res # <<>> /\ reqs[3].res[1].act = "continue"

C24_Step ==
    \A n \in Invocations :
        K_Step(n) =>
            \A m \in Invocations \ {n} :
                /\ browserState'[m] = browserState[m]
                /\ pages'[m] = pages[m]
                /\ allMetrics'[m] = allMetrics[m]
                /\ responses'[m] = responses[m]
                /\ hpc'[m] = hpc[m] /\ ppc'[m] = ppc[m]

\* C24: a step of one invocation (its launch, its run, its failure, its
\* global deadline, the close of its browser) leaves the browser, the pages,
\* the samples, the response and the position of the other invocation as
\* they are; an invocation only ever works on the browser it launched.
C24_InvocationsIndependent ==
    /\ [][C24_Step]_vars
    /\ [](\A n \in Invocations :
              /\ browserVar[n] \in {NoBrowser, n}
              /\ ppc[n] = "run" => rout[n] = n)

\* The first invocation failed and closed its browser while the second was
\* running; the second one succeeded.
C24_Witness ==
    /\ responses[1] = <<TestFailed>> /\ browserState[1] = "closed" /\ perr[1] = "TimeoutError"
    /\ Len(responses[2]) = 1 /\ responses[2][1].status = 200
    /\ Len(responses[2][1].individualRuns) = 1
    /\ Len(pages[2]) = 1

\* C31: in the legacy handler the host callback __reportFcp is in the page
\* when the navigation begins (page.goto is called), unless the call of
\* page.exposeFunction has failed.
C31_LegacyCallbackBeforeNavigate ==
    (ppc = "goto" /\ pages[1].exposing # "rejected") => pages[1].exposed

\* C37: in the legacy handler the document served to an intercepted
\* navigation document request is built from the resource at the url of
\* that request.
C37_LegacyDocumentFromOwnUrl ==
    \A k \in 1..Len(reqs) :
        (reqs[k].res # <<>> /\ reqs[k].res[1].act = "respond")
            => reqs[k].res[1].arg = reqs[k].url

\* C35: the FCP of a run is decided once, by the first delivery of the host
\* callback (that value) or by the timeout (null), whichever comes first
\* after the race is armed; a later delivery or timeout does not change it,
\* and the sample carries the decided value.
C35_Decision ==
    (fcp.state = "pending" /\ fcp'.state = "settled")
        => \/ fcpTimer = "armed" /\ fcpTimer' = "fired" /\ fcp'.value = Null
              /\ atResponse' = atResponse
           \/ fcpTimer = "armed" /\ fcpTimer' = "cleared" /\ Len(atResponse') = Len(atResponse) + 1
              /\ fcp'.value = atResponse'[Len(atResponse')]
C35_FcpDecidedOnce ==
    /\ [][C35_Decision]_vars
    /\ [][fcp.state = "settled" => fcp' = fcp]_vars
    /\ [](rout.kind = "return" => (fcp.state = "settled" /\ rout.FCP = fcp.value))
\* The first document's delivery decided the FCP; a second document
\* delivered another value before the sample was returned.
C35_Witness ==
    /\ Len(atResponse) = 2
    /\ fcpTimer = "cleared"
    /\ rout.kind = "return"
    /\ rout.FCP = atResponse[1]
    /\ atResponse[2] # atResponse[1]

\* C32: one response is sent per invocation, never two and never none: an
\* invocation that has not answered yet is at its start or waits on the
\* race with the deadline timer armed, and an invocation past the race has
\* answered exactly once, whatever fires or settles afterwards.
C32_ExactlyOneResponse ==
    /\ Len(responses) <= 1
    /\ hpc = "start" => Len(responses) = 0
    /\ hpc = "race" => (Len(responses) = 0 /\ race = "pending" /\ gtimer = "armed")
    /\ hpc \in {"closing", "done"} => Len(responses) = 1
\* The deadline timer has fired after the success response was sent.
C32_Witness ==
    /\ Len(responses) = 1
    /\ responses[1].status = 200 /\ ~req.dryRun
    /\ race = "fulfilled"
    /\ gtimer = "fired"

\* C33: after the global deadline has fired and its error response was
\* sent, the pipeline creates no page and starts no navigation.
C33_AfterDeadline == atResponse # <<>> /\ atResponse[1].cause = "GlobalTimeout"
C33_NoWorkAfterDeadline ==
    [][C33_AfterDeadline =>
          /\ Len(pages') = Len(pages)
          /\ (ppc' \in {"goto", "shotGoto"} => ppc = ppc')]_vars

\* C34: a success response is sent only after every run and the whole
\* screenshot sequence have completed; a failure of the screenshot page,
\* navigation or capture is answered with the error response, without
\* medians and samples.
ShotStages == {"shotNewPage", "shotViewport", "shotGoto", "shotCapture", "shotClose"}
C34_ScreenshotFailureIsFatal ==
    \A k \in 1..Len(responses) :
        /\ (responses[k].status = 200 /\ ~req.dryRun)
               => /\ atResponse[k].cause = "result"
                  /\ atResponse[k].at = "shotClose"
                  /\ Len(allMetrics) = req.runs
                  /\ \E p \in 1..Len(pages) : pages[p].kind = "shot" /\ pages[p].state = "closed"
        /\ (atResponse[k].at \in ShotStages /\ atResponse[k].cause # "result")
               => responses[k] = TestFailed
\* All runs succeeded and the screenshot navigation failed.
C34_Witness ==
    /\ req.runs >= 1
    /\ Len(allMetrics) = req.runs
    /\ Len(responses) = 1
    /\ atResponse[1].at = "shotGoto"
    /\ atResponse[1].cause \in {"TimeoutError", "Error"}
    /\ responses[1].status = 500

\* C36 as stated: a callback delivered before the settle delay completes
\* makes the delivered value the FCP of the run.
C36_DeliveredFcpIsSampled ==
    (ppc \in {"goto", "settle"} /\ inpage.fcpReported)
        => (fcp.state = "settled" /\ fcp.value \in FcpValues)
\* C36: a callback delivered while the 30 s timer is still armed decides the
\* FCP of the run and the sample has that value; when the timer has fired
\* first, the sample's FCP is null, also if the callback is delivered before
\* the collection step.
C36_DeliveryStep ==
    (~inpage.fcpReported /\ inpage'.fcpReported /\ fcpTimer = "armed")
        => (fcp'.state = "settled" /\ fcp'.value \in FcpValues /\ fcpTimer' = "cleared")
C36_DeliveredBeforeTimeoutIsSampled ==
    /\ [][C36_DeliveryStep]_vars
    /\ [](rout.kind = "return"
             => IF fcpTimer = "cleared"
                THEN rout.FCP \in FcpValues /\ inpage.fcpReported
                ELSE rout.FCP = Null /\ fcpTimer = "fired")
\* The callback was delivered during the navigation and the run returned
\* its value.
C36_Witness ==
    /\ rout.kind = "return"
    /\ inpage.fcpReported
    /\ fcpTimer = "cleared"
    /\ rout.FCP \in FcpValues

\* C38: the run-test button is disabled exactly while a test request of the
\* page is in flight or being handled, so at most one is in flight, and it
\* is enabled again after every outcome.
C38_ButtonGuardsOneRequest ==
    /\ Len(reqs) <= 1
    /\ inpage.disabled <=> Len(reqs) = 1
\* A test has ended in the catch block and the button is enabled again.
C38_Witness ==
    /\ atResponse # <<>>
    /\ atResponse[Len(atResponse)].status = "failed"
    /\ reqs = <<>>
    /\ ~inpage.disabled

\* C39: every success response leaves the UI in the 'Test complete!' state
\* with the metrics shown, and a result is put in the history only for a
\* test the UI reports as complete, also when a sample's FCP or LCP is null
\* (the write to localStorage succeeding).
C39_SuccessEndsComplete ==
    \A k \in 1..Len(atResponse) :
        LET h == atResponse[k] IN
        h.saved => /\ h.ok => (h.status = "complete" /\ h.metrics)
                   /\ h.stored => h.status = "complete"

====
